---------------------------- MODULE Spec2Model ----------------------------
(***************************************************************************)
(* Digital Audio Wedding Cards: the card access and personalization        *)
(* protocol.  The browser side (card-viewer.js, utils.js, the analytics    *)
(* and dashboard scripts) is modelled from the JavaScript sources; the     *)
(* backend (FastAPI, JSON files) is not part of the sources at hand and is *)
(* modelled from the written contract of the HTTP surface.                 *)
(*                                                                         *)
(* Strings are sequences of one-character strings.                         *)
(***************************************************************************)
EXTENDS Integers, Sequences, FiniteSets, TLC

(***************************************************************************)
(* Bounds of the model.                                                    *)
(***************************************************************************)
MaxFrags == 3
MaxNameLen == 2
MaxRequests == 2
MaxDashRequests == 3
MaxCreated == 2

(***************************************************************************)
(* State.                                                                  *)
(***************************************************************************)
VARIABLES
    cards,         \* backend store: card id -> Card record
    events,        \* backend store: the View Event log, oldest first
    lock,          \* backend: the cards whose critical section is taken
    clock,         \* time: ticks with every store write
    requests,      \* HTTP requests in flight or answered: request id -> record
    nextRid,       \* the id of the next request
    viewer,        \* the view-card pages: CardViewer and the name form, per tab
    localStorage,  \* the browser's local storage: authToken, userId, username
    analyticsPage, \* the analytics page: Analytics and its DOMContentLoaded handler
    dash,          \* the dashboard page: DashboardService
    creator,       \* the card-creation page: CardCreator
    persMessage,   \* personalization: the card message handed in
    persName,      \* personalization: the text of the name field
    persResult,    \* personalization: the text put on the page
    persPc,        \* personalization: "start", "rejected" or "done"
    nameField,     \* the view-card pages: the text in the recipientName field, per tab
    recorder,      \* the card-creation page: the voice recorder, the form and the time
    auth           \* the calls of AuthService in progress, per tab

persVars == <<persMessage, persName, persResult, persPc, nameField, recorder, auth>>

viewerVars == <<viewer>>
authVars == <<localStorage, analyticsPage, dash, creator>>

vars == <<cards, events, lock, clock, requests, nextRid, viewer, authVars, persVars>>

(***************************************************************************)
(* Strings.                                                                *)
(***************************************************************************)
\* All sequences over alphabet of length 0..n.
RECURSIVE SeqsUpTo(_, _)
SeqsUpTo(alphabet, n) ==
    IF n = 0 THEN {<<>>}
    ELSE LET shorter == SeqsUpTo(alphabet, n - 1)
         IN  shorter \cup {Append(s, c) : s \in shorter, c \in alphabet}

\* Concatenations of 0..n fragments.
RECURSIVE ConcatsUpTo(_, _)
ConcatsUpTo(frags, n) ==
    IF n = 0 THEN {<<>>}
    ELSE LET shorter == ConcatsUpTo(frags, n - 1)
         IN  shorter \cup {s \o f : s \in shorter, f \in frags}

\* The pattern pat occurs in s starting at index i (1-based).
MatchAt(s, i, pat) ==
    /\ i + Len(pat) - 1 <= Len(s)
    /\ \A k \in 1..Len(pat) : s[i + k - 1] = pat[k]

Contains(s, pat) == \E i \in 1..Len(s) : MatchAt(s, i, pat)

\* JavaScript's white space, as far as the model's alphabet holds it.
IsSpace(c) == c = " "

\* String.prototype.trim
RECURSIVE TrimLeft(_)
TrimLeft(s) == IF s # <<>> /\ IsSpace(Head(s)) THEN TrimLeft(Tail(s)) ELSE s

RECURSIVE TrimRight(_)
TrimRight(s) ==
    IF s # <<>> /\ IsSpace(s[Len(s)]) THEN TrimRight(SubSeq(s, 1, Len(s) - 1)) ELSE s

Trim(s) == TrimRight(TrimLeft(s))

(***************************************************************************)
(* CardViewer.personalizeMessage: message.replace(/\{name\}/g, name).      *)
(* The second argument of replace is a replacement template: GetSubstitution*)
(* of ECMAScript expands $$, $&, $' and $ followed by a grave accent in   *)
(* it; $n and $< stay literal                                              *)
(* because the pattern has no capture groups.                              *)
(***************************************************************************)
Placeholder == <<"{", "n", "a", "m", "e", "}">>

\* The grave accent character (a TLA+ string cannot hold it).
GraveAccent == "GRAVE"

\* The first index from j on at which str holds the character c; one past
\* the end of str if there is none.
NextIndexOf(str, c, j) ==
    LET P == {k \in j..Len(str) : str[k] = c}
    IN  IF P = {} THEN Len(str) + 1 ELSE CHOOSE k \in P : \A m \in P : k <= m

RECURSIVE GetSubstitution(_, _, _, _, _)
GetSubstitution(matched, str, position, replacement, j) ==
    IF j > Len(replacement) THEN <<>>
    ELSE IF replacement[j] = "$" /\ j < Len(replacement)
    THEN LET c == replacement[j + 1]
         IN  CASE c = "$" -> <<"$">>
                        \o GetSubstitution(matched, str, position, replacement, j + 2)
               [] c = "&" -> matched
                        \o GetSubstitution(matched, str, position, replacement, j + 2)
               [] c = GraveAccent -> SubSeq(str, 1, position - 1)
                        \o GetSubstitution(matched, str, position, replacement, j + 2)
               [] c = "'" -> SubSeq(str, position + Len(matched), Len(str))
                        \o GetSubstitution(matched, str, position, replacement, j + 2)
               [] OTHER -> <<"$">>
                        \o GetSubstitution(matched, str, position, replacement, j + 1)
    ELSE IF replacement[j] = "$"
    THEN <<"$">>
    ELSE \* the characters up to the next "$" are copied
         LET next == NextIndexOf(replacement, "$", j)
         IN  SubSeq(replacement, j, next - 1)
                \o GetSubstitution(matched, str, position, replacement, next)

\* replace with a global pattern: every match, left to right, not overlapping.
RECURSIVE ReplaceGlobal(_, _, _, _)
ReplaceGlobal(str, pat, replacement, i) ==
    LET P == {k \in i..Len(str) : MatchAt(str, k, pat)}
    IN  IF P = {} THEN SubSeq(str, i, Len(str))
        ELSE \* the characters up to the next match are copied
             LET k == CHOOSE x \in P : \A m \in P : x <= m
             IN  SubSeq(str, i, k - 1)
                    \o GetSubstitution(pat, str, k, replacement, 1)
                    \o ReplaceGlobal(str, pat, replacement, k + Len(pat))

\* A slip of the pattern: the closing brace is not part of it.
personalizeMessageOpenBrace(message, name) ==
    ReplaceGlobal(message, SubSeq(Placeholder, 1, 5), name, 1)

personalizeMessage(message, name) == ReplaceGlobal(message, Placeholder, name, 1)

(***************************************************************************)
(* Utils.validateRecipientName                                             *)
(***************************************************************************)
\* /<[^>]*>/ : a "<" followed, somewhere later, by a ">".
HasMarkup(s) ==
    \E i \in 1..Len(s) : s[i] = "<" /\ \E k \in (i + 1)..Len(s) : s[k] = ">"

MaxNameLength == 100

\* A slip of the length check: >= instead of >.
validateRecipientNameBelow100(name) ==
    LET trimmedName == Trim(name)
        errors ==
            IF name = <<>> \/ trimmedName = <<>> THEN <<"Name is required">>
            ELSE (IF Len(trimmedName) >= MaxNameLength
                  THEN <<"Name must be less than 100 characters">> ELSE <<>>)
              \o (IF HasMarkup(trimmedName)
                  THEN <<"Name contains invalid characters">> ELSE <<>>)
    IN  [isValid |-> errors = <<>>, errors |-> errors]

validateRecipientName(name) ==
    LET trimmedName == Trim(name)
        errors ==
            IF name = <<>> \/ trimmedName = <<>> THEN <<"Name is required">>
            ELSE (IF Len(trimmedName) < 1 THEN <<"Name cannot be empty">> ELSE <<>>)
              \o (IF Len(trimmedName) > MaxNameLength
                  THEN <<"Name must be less than 100 characters">> ELSE <<>>)
              \o (IF HasMarkup(trimmedName)
                  THEN <<"Name contains invalid characters">> ELSE <<>>)
    IN  [isValid |-> errors = <<>>, errors |-> errors]

(***************************************************************************)
(* Card ids and URLs.                                                      *)
(***************************************************************************)
\* JavaScript's null.
Null == "null"

\* The characters of the class [a-zA-Z0-9_-], as far as the model holds them.
IdClass == {"a", "b", "c", "n", "Z", "1", "2", "3", "7", "_", "-"}

\* A slip of the pattern: not anchored, /[a-zA-Z0-9_-]+/.
cardIdFormatOkUnanchored(cardId) ==
    \E i \in 1..Len(cardId) : cardId[i] \in IdClass

\* /^[a-zA-Z0-9_-]+$/.test(cardId)
cardIdFormatOk(cardId) ==
    /\ Len(cardId) >= 1
    /\ \A i \in 1..Len(cardId) : cardId[i] \in IdClass

\* !cardId : null and the empty string are falsy.
Falsy(x) == x = Null \/ x = <<>>

\* encodeURIComponent: the unreserved characters stay, the others become
\* percent escapes.
Unreserved == {"A", "B", "'", "a", "b", "c", "n", "x", "Z", "1", "2", "3", "7", "_", "-"}

PercentCode(c) ==
    CASE c = " " -> <<"%", "2", "0">>
      [] c = "&" -> <<"%", "2", "6">>
      [] c = "$" -> <<"%", "2", "4">>
      [] c = "%" -> <<"%", "2", "5">>
      [] c = "<" -> <<"%", "3", "C">>
      [] c = ">" -> <<"%", "3", "E">>
      [] c = "/" -> <<"%", "2", "F">>
      [] c = "{" -> <<"%", "7", "B">>
      [] c = "}" -> <<"%", "7", "D">>
      [] c = GraveAccent -> <<"%", "6", "0">>
      [] OTHER   -> <<"%", "X", "X">>   \* no such character in the model

RECURSIVE encodeURIComponent(_)
encodeURIComponent(str) ==
    LET P == {k \in 1..Len(str) : str[k] \notin Unreserved}
    IN  IF P = {} THEN str
        ELSE LET k == CHOOSE x \in P : \A m \in P : x <= m
             IN  SubSeq(str, 1, k - 1) \o PercentCode(str[k])
                    \o encodeURIComponent(SubSeq(str, k + 1, Len(str)))

\* A URL of the backend, by its parts: the endpoint, the card id in the path
\* and the recipient_name query parameter (percent-encoded, or Null).
Url(endpoint, cardId, recipientName) ==
    [endpoint |-> endpoint, card_id |-> cardId, recipient_name |-> recipientName]

\* CardViewer.loadCard: the URL it fetches.
\* A slip: the query parameter is left out.
loadCardUrlNoQuery(cardId, recipientName) == Url("card", cardId, Null)

loadCardUrl(cardId, recipientName) ==
    Url("card", cardId,
        IF Falsy(recipientName) THEN Null ELSE encodeURIComponent(recipientName))

\* CardViewer.playAudio: the URL given to the audio element.
\* A slip: the card endpoint instead of the audio endpoint.
playAudioUrlCardEndpoint(cardId, audioPath, recipientName) ==
    IF ~Falsy(recipientName) /\ ~Falsy(cardId)
    THEN Url("card", cardId, encodeURIComponent(recipientName))
    ELSE Url("static", audioPath, Null)

playAudioUrl(cardId, audioPath, recipientName) ==
    IF ~Falsy(recipientName) /\ ~Falsy(cardId)
    THEN Url("audio", cardId, encodeURIComponent(recipientName))
    ELSE Url("static", audioPath, Null)

\* CardViewer.loadCard up to the fetch: the error it throws, or "fetch".
loadCardPrecheck(cardId, recipientName, online) ==
    IF Falsy(cardId) THEN "No card ID provided"
    ELSE IF ~cardIdFormatOk(cardId) THEN "Invalid card ID format"
    ELSE IF ~Falsy(recipientName) /\ ~validateRecipientName(recipientName).isValid
    THEN validateRecipientName(recipientName).errors[1]
    ELSE IF ~online THEN "You are offline"
    ELSE "fetch"

\* response.ok
ResponseOk(status) == status >= 200 /\ status <= 299

\* CardViewer.loadCard after the fetch: the error it throws for a response
\* that is not ok, or "ok".
\* A slip: the status is not looked at.
loadCardOutcomeAlwaysOk(status, detail) == "ok"

loadCardOutcome(status, detail) ==
    IF ResponseOk(status) THEN "ok"
    ELSE CASE status = 404 -> "Wedding card not found"
           [] status = 400 -> IF detail # Null THEN detail ELSE "Invalid request"
           [] status = 500 -> "Server error"
           [] OTHER -> IF detail # Null THEN detail ELSE "Failed to load card"

(***************************************************************************)
(* The backend, from the contract of its HTTP surface.                     *)
(***************************************************************************)
\* The message with every occurrence of the placeholder replaced by the
\* text n, taken literally, and every other character kept.
RECURSIVE LiteralSubstitution(_, _, _)
LiteralSubstitution(m, n, i) ==
    IF i > Len(m) THEN <<>>
    ELSE IF MatchAt(m, i, Placeholder)
    THEN n \o LiteralSubstitution(m, n, i + Len(Placeholder))
    ELSE <<m[i]>> \o LiteralSubstitution(m, n, i + 1)


\* The id format check of the backend: ^[a-zA-Z0-9_-]+$.
ServerIdFormatOk(cardId) ==
    /\ Len(cardId) >= 1
    /\ \A i \in 1..Len(cardId) : cardId[i] \in IdClass

\* The viewer name check of the backend: 1-100 characters, no markup.
ServerNameOk(name) ==
    /\ Len(name) >= 1
    /\ Len(name) <= MaxNameLength
    /\ ~HasMarkup(name)

\* The character a percent escape stands for.
PercentChar(x, y) ==
    CASE <<x, y>> = <<"2", "0">> -> " "
      [] <<x, y>> = <<"2", "6">> -> "&"
      [] <<x, y>> = <<"2", "4">> -> "$"
      [] <<x, y>> = <<"2", "5">> -> "%"
      [] <<x, y>> = <<"3", "C">> -> "<"
      [] <<x, y>> = <<"3", "E">> -> ">"
      [] <<x, y>> = <<"2", "F">> -> "/"
      [] <<x, y>> = <<"7", "B">> -> "{"
      [] <<x, y>> = <<"7", "D">> -> "}"
      [] <<x, y>> = <<"6", "0">> -> GraveAccent
      [] OTHER -> "?"

\* Decoding of a query parameter.
RECURSIVE DecodeQuery(_)
DecodeQuery(str) ==
    LET k == NextIndexOf(str, "%", 1)
    IN  IF k > Len(str) THEN str
        ELSE IF k + 2 <= Len(str)
        THEN SubSeq(str, 1, k - 1) \o <<PercentChar(str[k + 1], str[k + 2])>>
                \o DecodeQuery(SubSeq(str, k + 3, Len(str)))
        ELSE SubSeq(str, 1, k) \o DecodeQuery(SubSeq(str, k + 1, Len(str)))

\* The viewer name a request carries, decoded; Null when it carries none.
ViewerNameOf(r) ==
    IF r.url.recipient_name = Null THEN Null ELSE DecodeQuery(r.url.recipient_name)

\* Personalization on the backend: every {name} replaced by the name.
ServerPersonalize(message, name) == LiteralSubstitution(message, name, 1)

\* The cards in the store when the model starts: created earlier, not viewed.
InitialCards ==
    (<<"a">> :> [owner_id |-> "u1", message |-> <<"H", " ">> \o Placeholder,
                 ai_voice_path |-> <<"v", "1">>, created_at |-> 0, view_count |-> 0])
    @@
    (<<"b">> :> [owner_id |-> "u2", message |-> <<"H", "i">>,
                 ai_voice_path |-> Null, created_at |-> 0, view_count |-> 0])

\* The number of View Events of a card.
EventCount(cardId) == Cardinality({i \in 1..Len(events) : events[i].card_id = cardId})

\* A render request that records a view: a well-formed id of a card in the
\* store and a valid viewer name.
RecordsView(r) ==
    /\ r.url.endpoint = "card"
    /\ ServerIdFormatOk(r.url.card_id)
    /\ r.url.card_id \in DOMAIN cards
    /\ ViewerNameOf(r) # Null
    /\ ServerNameOk(ViewerNameOf(r))

\* The response body of an error.
ErrorBody(detail) ==
    [message |-> Null, ai_voice_path |-> Null, detail |-> detail, data |-> <<>>]

\* The response body of a list or a rollup.
DataBody(data) ==
    [message |-> Null, ai_voice_path |-> Null, detail |-> Null, data |-> data]

\* The user a bearer token stands for; Null for no token and for a token
\* that is expired or unknown.
TokenUser(token) ==
    CASE token = "t1" -> "u1"
      [] token = "t2" -> "u2"
      [] OTHER -> Null

\* The View Events of a card, oldest first.
EventsOfCard(cardId) == SelectSeq(events, LAMBDA e : e.card_id = cardId)

\* The names of a sequence of events, each once, in the order first seen.
RECURSIVE DistinctNames(_)
DistinctNames(evs) ==
    IF evs = <<>> THEN <<>>
    ELSE LET before == DistinctNames(SubSeq(evs, 1, Len(evs) - 1))
             last == evs[Len(evs)].viewer_name
         IN  IF \E i \in 1..Len(before) : before[i] = last
             THEN before ELSE Append(before, last)

\* The window of recent_views.
RecentWindow == 50

\* The newest events first, at most RecentWindow of them.
RecentViews(evs) ==
    LET n == IF Len(evs) < RecentWindow THEN Len(evs) ELSE RecentWindow
    IN  [i \in 1..n |-> [viewer_name |-> evs[Len(evs) + 1 - i].viewer_name,
                         viewed_at |-> evs[Len(evs) + 1 - i].viewed_at]]

\* The per-card rollup.
Rollup(cardId) ==
    LET evs == EventsOfCard(cardId)
    IN  [card_id |-> cardId,
         message |-> cards[cardId].message,
         created_at |-> cards[cardId].created_at,
         total_views |-> Len(evs),
         unique_viewers |-> Cardinality({evs[i].viewer_name : i \in 1..Len(evs)}),
         viewer_names |-> DistinctNames(evs),
         recent_views |-> RecentViews(evs)]

\* The ids of a set of cards, newest created first.
RECURSIVE NewestFirst(_)
NewestFirst(ids) ==
    IF ids = {} THEN <<>>
    ELSE LET newest == CHOOSE c \in ids :
                            \A d \in ids : cards[d].created_at <= cards[c].created_at
         IN  <<newest>> \o NewestFirst(ids \ {newest})

\* The cards a user owns.
CardsOwnedBy(user) == {c \in DOMAIN cards : cards[c].owner_id = user}

\* The summary of a card in a listing.
Summary(cardId) ==
    [id |-> cardId, message |-> cards[cardId].message,
     created_at |-> cards[cardId].created_at,
     view_count |-> cards[cardId].view_count]

\* GET /cards/my-cards for a user.
MyCards(user) ==
    LET ids == NewestFirst(CardsOwnedBy(user))
    IN  [i \in 1..Len(ids) |-> Summary(ids[i])]

\* GET /analytics/user/{user_id}: the rollups of the user's cards.
UserRollups(user) ==
    LET ids == NewestFirst(CardsOwnedBy(user))
    IN  [i \in 1..Len(ids) |-> Rollup(ids[i])]

\* The endpoints that ask for a bearer token.
AuthEndpoints == {"analytics", "user-analytics", "my-cards", "verify", "logout"}

\* The response of an endpoint that asks for a bearer token.
AuthenticatedResponse(r) ==
    LET user == TokenUser(r.token)
        id == r.url.card_id
    IN  CASE user = Null -> <<401, ErrorBody("Could not validate credentials")>>
          [] r.url.endpoint = "verify" -> <<200, DataBody(<<user>>)>>
          [] r.url.endpoint = "logout" -> <<200, DataBody(<<>>)>>
          [] r.url.endpoint = "my-cards" -> <<200, DataBody(MyCards(user))>>
          [] r.url.endpoint = "user-analytics" -> <<200, DataBody(UserRollups(id))>>
          [] ~ServerIdFormatOk(id) -> <<400, ErrorBody("Invalid card id")>>
          [] id \notin DOMAIN cards -> <<404, ErrorBody("Card not found")>>
          [] cards[id].owner_id # user -> <<403, ErrorBody("Not the owner of this card")>>
          [] OTHER -> <<200, DataBody(<<Rollup(id)>>)>>

\* The endpoints of card creation: POST /voice/generate, POST /cards/create.
CreationEndpoints == {"voice-generate", "create"}

\* The response to a request that writes nothing: <<status, body>>.
ReadOnlyResponse(r) ==
    LET id == r.url.card_id
        name == ViewerNameOf(r)
    IN  CASE r.url.endpoint \in AuthEndpoints -> AuthenticatedResponse(r)
          [] r.url.endpoint = "static" ->
                IF \E c \in DOMAIN cards : cards[c].ai_voice_path = id
                THEN <<200, ErrorBody(Null)>>
                ELSE <<404, ErrorBody("Not found")>>
          [] ~ServerIdFormatOk(id) -> <<400, ErrorBody("Invalid card id")>>
          [] name # Null /\ ~ServerNameOk(name) -> <<400, ErrorBody("Invalid name")>>
          [] id \notin DOMAIN cards -> <<404, ErrorBody("Card not found")>>
          [] r.url.endpoint = "audio" ->
                IF cards[id].ai_voice_path = Null
                THEN <<404, ErrorBody("Audio not available")>>
                ELSE <<200, ErrorBody(Null)>>
          [] OTHER ->
                <<200, [message |-> cards[id].message,
                        ai_voice_path |-> cards[id].ai_voice_path,
                        detail |-> Null, data |-> <<>>]>>

\* The per-card critical section is free.
\* A slip: no serialization of the requests of one card.
CanEnterUnserialized(cardId) == TRUE

CanEnter(cardId) == cardId \notin lock

\* The store after one view of a card is recorded: <<cards, events>>.  The
\* event append and the counter increment are one write.
\* A slip: the event is appended and the counter is left alone.
RecordViewEventOnly(rid, cardId, name, readCount) ==
    <<cards,
      Append(events, [card_id |-> cardId, viewer_name |-> name,
                      viewed_at |-> clock + 1, rid |-> rid])>>

\* A slip: the new event is put in front of the log.
RecordViewNewestFirst(rid, cardId, name, readCount) ==
    <<[cards EXCEPT ![cardId].view_count = readCount + 1],
      <<[card_id |-> cardId, viewer_name |-> name,
         viewed_at |-> clock + 1, rid |-> rid]>> \o events>>

RecordView(rid, cardId, name, readCount) ==
    <<[cards EXCEPT ![cardId].view_count = readCount + 1],
      Append(events, [card_id |-> cardId, viewer_name |-> name,
                      viewed_at |-> clock + 1, rid |-> rid])>>

\* The ids the backend gives to the cards it creates, in this order.
NewCardIds == <<<<"n">>, <<"Z">>, <<"7">>, <<"1">>>>

\* The cards created since the start.
Created == {i \in 1..Len(NewCardIds) : NewCardIds[i] \in DOMAIN cards}

\* POST /cards/create by a user, as one write of the store.
CardCreated(owner) ==
    /\ Cardinality(Created) < MaxCreated
    /\ Cardinality(Created) < Len(NewCardIds)
    /\ cards' = (NewCardIds[Cardinality(Created) + 1] :>
                    [owner_id |-> owner, message |-> <<"H", "i">>,
                     ai_voice_path |-> Null, created_at |-> clock + 1,
                     view_count |-> 0]) @@ cards
    /\ clock' = clock + 1
    /\ UNCHANGED <<events, lock, requests, nextRid, viewer, localStorage,
                   analyticsPage, dash, creator>>

(***************************************************************************)
(* HTTP requests.  A request is "sent", then "inCS" while the backend holds*)
(* the critical section of its card, then "done" with its response.  The   *)
(* response of a request nobody waits for any more is dropped.             *)
(***************************************************************************)
NewRequest(from, kind, url, token) ==
    [from |-> from, kind |-> kind, url |-> url, token |-> token,
     payload |-> Null, stage |-> "sent", read_count |-> 0, status |-> 0,
     served_at |-> 0, body |-> ErrorBody(Null)]

\* The requests with one more, under the next request id.
Send(r) == (nextRid :> r) @@ requests

\* The requests without the request rid.
Without(reqs, rid) == [x \in DOMAIN reqs \ {rid} |-> reqs[x]]

\* Somebody waits for the response of request rid: the fetch of loadCard, the
\* audio element, a page that is still open, a direct client of the API.
Awaited(rid) ==
    LET r == requests[rid]
    IN  \/ r.from = "api"
        \/ r.from = "analytics" /\ r.kind = "list" /\ analyticsPage.awaiting = rid
        \/ r.from = "analytics" /\ r.kind = "details" /\ analyticsPage.detailsRid = rid
        \/ r.from = "dashboard" /\ rid \in dash.awaiting
        \/ r.from = "creator" /\ rid \in {creator.voiceRid, creator.createRid}
        \/ /\ r.from \in DOMAIN viewer
           /\ \/ r.kind = "fetch" /\ viewer[r.from].pc = "loading"
                                  /\ viewer[r.from].awaiting = rid
              \/ r.kind = "audio" /\ viewer[r.from].audioRid = rid

Respond(rid, status, body) ==
    IF Awaited(rid)
    THEN [requests EXCEPT ![rid].stage = "done", ![rid].status = status,
                          ![rid].body = body,
                          ![rid].served_at =
                              IF requests[rid].url.endpoint = "my-cards"
                              THEN clock ELSE 0]
    ELSE Without(requests, rid)

\* A request answered without a write: an invalid id or name, an absent card,
\* a render without a viewer name, an audio or file fetch.
ServerRespond(rid) ==
    /\ requests[rid].stage = "sent"
    /\ requests[rid].url.endpoint \notin CreationEndpoints
    /\ ~RecordsView(requests[rid])
    /\ LET resp == ReadOnlyResponse(requests[rid])
       IN  requests' = Respond(rid, resp[1], resp[2])
    /\ UNCHANGED <<cards, events, lock, clock, nextRid, viewer, authVars>>

\* A render with a viewer name enters the critical section of its card and
\* reads the counter.
ServerEnter(rid) ==
    /\ requests[rid].stage = "sent"
    /\ RecordsView(requests[rid])
    /\ CanEnter(requests[rid].url.card_id)
    /\ lock' = lock \cup {requests[rid].url.card_id}
    /\ requests' = [requests EXCEPT
                       ![rid].stage = "inCS",
                       ![rid].read_count = cards[requests[rid].url.card_id].view_count]
    /\ UNCHANGED <<cards, events, clock, nextRid, viewer, authVars>>

\* It records the view, leaves the critical section and answers.
ServerCommit(rid) ==
    /\ requests[rid].stage = "inCS"
    /\ LET r == requests[rid]
           id == r.url.card_id
           name == ViewerNameOf(r)
           store == RecordView(rid, id, name, r.read_count)
       IN  /\ cards' = store[1]
           /\ events' = store[2]
           /\ clock' = clock + 1
           /\ lock' = lock \ {id}
           /\ requests' = Respond(rid, 200,
                            [message |-> ServerPersonalize(cards[id].message, name),
                             ai_voice_path |-> cards[id].ai_voice_path,
                             detail |-> Null, data |-> <<>>])
    /\ UNCHANGED <<nextRid, viewer, authVars>>

\* The store fails (or the request times out) before or inside the critical
\* section: nothing is written.  A request rejected for its id never reaches
\* the store.
ServerStorageFailure(rid) ==
    /\ requests[rid].stage \in {"sent", "inCS"}
    /\ requests[rid].url.endpoint \in {"card", "audio"}
    /\ ServerIdFormatOk(requests[rid].url.card_id)
    /\ lock' = IF requests[rid].stage = "inCS"
               THEN lock \ {requests[rid].url.card_id} ELSE lock
    /\ requests' = Respond(rid, 500, ErrorBody("Storage unavailable"))
    /\ UNCHANGED <<cards, events, clock, nextRid, viewer, authVars>>

\* The details a 401 may carry: a wording of the backend, or no body.
UnauthorizedDetails ==
    {"Could not validate credentials", "Authentication required", Null}

\* POST /voice/generate is answered: 401 without a valid token, otherwise the
\* voice is generated, or the synthesis service fails.
ServerVoice(rid, status, detail) ==
    /\ requests[rid].stage = "sent"
    /\ requests[rid].url.endpoint = "voice-generate"
    /\ IF TokenUser(requests[rid].token) = Null
       THEN status = 401 /\ detail \in UnauthorizedDetails
       ELSE \/ status = 200 /\ detail = Null
            \/ status = 503 /\ detail = "Failed to generate voice"
    /\ requests' = Respond(rid, status, ErrorBody(detail))
    /\ UNCHANGED <<cards, events, lock, clock, nextRid, viewer, authVars>>

\* POST /cards/create is answered: 401 without a valid token, otherwise the
\* card is created for the user of the token, as one write of the store.
ServerCreate(rid) ==
    /\ requests[rid].stage = "sent"
    /\ requests[rid].url.endpoint = "create"
    /\ LET user == TokenUser(requests[rid].token)
           id == NewCardIds[Cardinality(Created) + 1]
       IN  IF user = Null
           THEN /\ requests' = Respond(rid, 401,
                                    ErrorBody("Could not validate credentials"))
                /\ UNCHANGED <<cards, clock>>
           ELSE /\ Cardinality(Created) < MaxCreated
                /\ Cardinality(Created) < Len(NewCardIds)
                /\ cards' = (id :> [owner_id |-> user,
                                    message |-> requests[rid].payload,
                                    ai_voice_path |-> Null,
                                    created_at |-> clock + 1,
                                    view_count |-> 0]) @@ cards
                /\ clock' = clock + 1
                /\ requests' = Respond(rid, 200,
                        DataBody(<<[id |-> id, message |-> requests[rid].payload,
                                    created_at |-> clock + 1, view_count |-> 0]>>))
    /\ UNCHANGED <<events, lock, nextRid, viewer, authVars>>

\* Some other client of the public link fetches a card, or the audio of a
\* card, without a viewer name.
OtherGet(endpoint, id) ==
    /\ nextRid <= MaxRequests
    /\ requests' = Send(NewRequest("other", "fetch", Url(endpoint, id, Null), Null))
    /\ nextRid' = nextRid + 1
    /\ UNCHANGED <<cards, events, lock, clock, viewer, authVars>>

(***************************************************************************)
(* The view-card page: CardViewer and the name form.                       *)
(***************************************************************************)
\* this.cardData = null, as a record like the card data.
NoCardData == [isNull |-> TRUE, message |-> Null, ai_voice_path |-> Null]

\* The name form's handler after the card is displayed: if (card.ai_voice_path),
\* the branch that calls playAudio; playAudio itself returns at once for a
\* falsy audioPath.
\* A slip: the audio is taken to be available for every card.
audioIsAvailableAlways(card) == TRUE

audioIsAvailable(card) == ~Falsy(card.ai_voice_path)

\* The text of the name form's submit button in the markup of the page.
originalText == "original"

\* new CardViewer() and the DOMContentLoaded handler.  attempts counts the
\* fetches loadCard has issued for the name submitted; submitText and
\* submitDisabled are textContent and disabled of the form's submit button.
NewPage(id) ==
    [cardId |-> id, cardData |-> NoCardData,
     pc |-> IF Falsy(id) THEN "error" ELSE "form",
     errorMessage |-> IF Falsy(id) THEN "Invalid card link" ELSE Null,
     recipientName |-> Null, awaiting |-> 0, attempts |-> 0, status |-> 0,
     audioRid |-> 0,
     personalizedMessage |-> Null, audioLabel |-> Null,
     submitText |-> originalText, submitDisabled |-> FALSE]

\* The requests whose responses are done and were meant for the page of v.
DoneFor(v) ==
    {rid \in DOMAIN requests : requests[rid].from = v /\ requests[rid].stage = "done"}

\* The page is reloaded, or another link is opened, after a visit has ended
\* (as long as the model has a request left for the new visit).
PageLoad(v, id) ==
    /\ viewer[v].pc \in {"shown", "error"}
    /\ nextRid <= MaxRequests
    /\ viewer' = [viewer EXCEPT ![v] = NewPage(id)]
    /\ requests' = [rid \in DOMAIN requests \ DoneFor(v) |-> requests[rid]]
    /\ UNCHANGED <<cards, events, lock, clock, nextRid, authVars>>

\* The name form is submitted: the handler up to the fetch of loadCard.
\* The try block puts the button in its loading state.  Its catch block
\* shows the error and then reads originalText, a const of the try block
\* that is out of scope there: the read throws a ReferenceError and neither
\* assignment to the button is made, in Submit, Receive and FetchFails alike.
Submit(v, raw, online) ==
    /\ viewer[v].pc = "form"
    /\ LET recipientName == Trim(raw)
           nameValidation == validateRecipientName(recipientName)
           pre == loadCardPrecheck(viewer[v].cardId, recipientName, online)
       IN  IF ~nameValidation.isValid
           THEN UNCHANGED <<viewer, requests, nextRid>>
           ELSE IF pre # "fetch"
           THEN /\ viewer' = [viewer EXCEPT ![v].pc = "error",
                                            ![v].errorMessage = pre,
                                            ![v].submitText = "Loading...",
                                            ![v].submitDisabled = TRUE]
                /\ UNCHANGED <<requests, nextRid>>
           ELSE /\ nextRid <= MaxRequests
                /\ requests' = Send(NewRequest(v, "fetch",
                                        loadCardUrl(viewer[v].cardId, recipientName),
                                        Null))
                /\ nextRid' = nextRid + 1
                /\ viewer' = [viewer EXCEPT ![v].pc = "loading",
                                            ![v].recipientName = recipientName,
                                            ![v].attempts = 1,
                                            ![v].awaiting = nextRid,
                                            ![v].submitText = "Loading...",
                                            ![v].submitDisabled = TRUE]
    /\ UNCHANGED <<cards, events, lock, clock, authVars>>

\* The response arrives: the rest of loadCard and of the handler.
Receive(v) ==
    /\ viewer[v].pc = "loading"
    /\ viewer[v].awaiting \in DOMAIN requests
    /\ requests[viewer[v].awaiting].stage = "done"
    /\ LET r == requests[viewer[v].awaiting]
           rest == Without(requests, viewer[v].awaiting)
           outcome == loadCardOutcome(r.status, r.body.detail)
           card == [isNull |-> FALSE, message |-> r.body.message,
                    ai_voice_path |-> r.body.ai_voice_path]
           shown == [viewer[v] EXCEPT
                        !.pc = "shown", !.cardData = card, !.status = r.status,
                        !.personalizedMessage =
                            personalizeMessage(card.message, viewer[v].recipientName)]
       IN  IF outcome # "ok"
           THEN /\ viewer' = [viewer EXCEPT ![v].pc = "error", ![v].errorMessage = outcome,
                                            ![v].status = r.status,
                                            ![v].recipientName = Null]
                /\ requests' = rest
                /\ UNCHANGED nextRid
           ELSE IF card.message = Null
           THEN \* loadCard has returned the data; message.replace throws a
                \* TypeError, which the handler catches
                /\ viewer' = [viewer EXCEPT ![v].pc = "error", ![v].cardData = card,
                                            ![v].status = r.status,
                                            ![v].errorMessage = "TypeError",
                                            ![v].recipientName = Null]
                /\ requests' = rest
                /\ UNCHANGED nextRid
           ELSE IF audioIsAvailable(card)
           THEN /\ nextRid <= MaxRequests
                /\ requests' = (nextRid :>
                        NewRequest(v, "audio",
                            playAudioUrl(viewer[v].cardId, card.ai_voice_path,
                                         viewer[v].recipientName), Null)) @@ rest
                /\ nextRid' = nextRid + 1
                /\ viewer' = [viewer EXCEPT ![v] =
                        [shown EXCEPT !.audioLabel = "Personal Voice Message: Loading",
                                      !.audioRid = nextRid]]
           ELSE /\ viewer' = [viewer EXCEPT ![v] =
                        [shown EXCEPT !.audioLabel = "Audio message will be available soon"]]
                /\ requests' = rest
                /\ UNCHANGED nextRid
    /\ UNCHANGED <<cards, events, lock, clock, authVars>>

\* The fetch is rejected (the connection is lost); the request may still
\* reach the backend.
FetchFails(v) ==
    /\ viewer[v].pc = "loading"
    /\ viewer' = [viewer EXCEPT ![v].pc = "error", ![v].errorMessage = "Failed to fetch",
                                ![v].recipientName = Null]
    /\ requests' = [rid \in DOMAIN requests \ DoneFor(v) |-> requests[rid]]
    /\ UNCHANGED <<cards, events, lock, clock, nextRid, authVars>>

\* The audio element has its answer: the canplay or the error listener.
AudioLoaded(v) ==
    /\ viewer[v].pc = "shown"
    /\ viewer[v].audioRid \in DOMAIN requests
    /\ requests[viewer[v].audioRid].stage = "done"
    /\ viewer' = [viewer EXCEPT ![v].audioLabel =
                    IF ResponseOk(requests[viewer[v].audioRid].status)
                    THEN "Personal Voice Message"
                    ELSE "Audio temporarily unavailable"]
    /\ requests' = Without(requests, viewer[v].audioRid)
    /\ UNCHANGED <<cards, events, lock, clock, nextRid, authVars>>

(***************************************************************************)
(* The session in localStorage and Utils.makeRequest.                      *)
(***************************************************************************)
\* localStorage without authToken, userId and username.
NoSession == [authToken |-> Null, userId |-> Null, username |-> Null]

\* localStorage after AuthService.login has stored the response for a user.
SessionOf(user) ==
    [authToken |-> IF user = "u1" THEN "t1" ELSE "t2", userId |-> user,
     username |-> user]

\* Utils.makeRequest after the fetch: the error it throws for a response that
\* is not ok, or "ok".
\* A slip: a 403 is taken for a success.
makeRequestOutcomeForbiddenOk(status, detail) ==
    CASE ResponseOk(status) \/ status = 403 -> "ok"
      [] status = 401 -> "Session expired. Please log in again."
      [] OTHER -> "error"

makeRequestOutcome(status, detail) ==
    CASE ResponseOk(status) -> "ok"
      [] status = 401 -> "Session expired. Please log in again."
      [] status = 403 -> "Access denied. You do not have permission to perform this action."
      [] status = 404 -> "The requested resource was not found."
      [] status = 429 -> "Too many requests. Please wait a moment and try again."
      [] status = 500 -> "Server error. Please try again later."
      [] status = 503 -> "Service temporarily unavailable. Please try again later."
      [] OTHER -> IF detail # Null THEN detail ELSE "HTTP error"

(***************************************************************************)
(* The analytics page: Analytics and its DOMContentLoaded handler.         *)
(***************************************************************************)
\* No analytics page is open.
\* The analyticsData container before renderAnalytics has run.
NothingRendered ==
    [noData |-> FALSE, totalCards |-> 0, totalViews |-> 0,
     totalUniqueViewers |-> 0, cards |-> <<>>]

\* The sum of total_views over the first n rollups (Array.prototype.reduce).
RECURSIVE SumOfViews(_, _)
SumOfViews(analyticsData, n) ==
    IF n = 0 THEN 0
    ELSE SumOfViews(analyticsData, n - 1) + analyticsData[n].total_views

\* Analytics.renderAnalytics: the card of one rollup.
renderCardStats(card) ==
    [card_id |-> card.card_id,
     totalViews |-> card.total_views,
     uniqueViewers |-> card.unique_viewers,
     viewersCount |-> Len(card.viewer_names),
     viewerItems |-> card.viewer_names,
     noViewsYet |-> ~(Len(card.viewer_names) > 0),
     recentViewsShown |-> Len(card.recent_views) > 0,
     recentItems |-> IF Len(card.recent_views) > 0 THEN card.recent_views ELSE <<>>]

\* A slip: the count of views is shown as the count of unique viewers.
renderAnalyticsViewsAsViewers(analyticsData) ==
    [noData |-> FALSE,
     totalCards |-> Len(analyticsData),
     totalViews |-> SumOfViews(analyticsData, Len(analyticsData)),
     totalUniqueViewers |-> SumOfViews(analyticsData, Len(analyticsData)),
     cards |-> [i \in 1..Len(analyticsData) |->
                    [renderCardStats(analyticsData[i]) EXCEPT
                        !.uniqueViewers = analyticsData[i].total_views]]]

\* A slip: cards nobody has viewed are taken for no cards at all.
renderAnalyticsUnviewedAsNoCards(analyticsData) ==
    IF SumOfViews(analyticsData, Len(analyticsData)) = 0
    THEN [NothingRendered EXCEPT !.noData = TRUE]
    ELSE [noData |-> FALSE,
          totalCards |-> Len(analyticsData),
          totalViews |-> SumOfViews(analyticsData, Len(analyticsData)),
          totalUniqueViewers |->
                Cardinality(UNION {{analyticsData[i].viewer_names[k] :
                                        k \in 1..Len(analyticsData[i].viewer_names)} :
                                   i \in 1..Len(analyticsData)}),
          cards |-> [i \in 1..Len(analyticsData) |->
                        renderCardStats(analyticsData[i])]]

\* Analytics.renderAnalytics: what the analyticsData container shows.
renderAnalytics(analyticsData) ==
    IF Len(analyticsData) = 0
    THEN [NothingRendered EXCEPT !.noData = TRUE]
    ELSE [noData |-> FALSE,
          totalCards |-> Len(analyticsData),
          totalViews |-> SumOfViews(analyticsData, Len(analyticsData)),
          totalUniqueViewers |->
                Cardinality(UNION {{analyticsData[i].viewer_names[k] :
                                        k \in 1..Len(analyticsData[i].viewer_names)} :
                                   i \in 1..Len(analyticsData)}),
          cards |-> [i \in 1..Len(analyticsData) |->
                        renderCardStats(analyticsData[i])]]

NoAnalyticsPage ==
    [pc |-> "closed", userId |-> Null, data |-> <<>>, awaiting |-> 0,
     detailsRid |-> 0, detailsStatus |-> 0, modal |-> <<>>, alert |-> Null,
     error |-> Null, rendered |-> NothingRendered]

\* Analytics.loadCardAnalytics up to makeRequest: the error it throws, or
\* "fetch".
loadCardAnalyticsPrecheck(cardId, online) ==
    IF ~online THEN "You are offline"
    ELSE IF Falsy(cardId) \/ ~cardIdFormatOk(cardId) THEN "Invalid card ID"
    ELSE "fetch"

\* The page is opened: the DOMContentLoaded handler up to the fetch of
\* loadUserAnalytics.
AnalyticsPageLoad(online) ==
    /\ analyticsPage.pc \in {"closed", "redirected", "ready", "error"}
    /\ analyticsPage.detailsRid = 0
    /\ LET userId == localStorage.userId
       IN  IF userId = Null
           THEN /\ analyticsPage' = [NoAnalyticsPage EXCEPT !.pc = "redirected"]
                /\ UNCHANGED <<requests, nextRid>>
           ELSE IF ~online
           THEN /\ analyticsPage' = [NoAnalyticsPage EXCEPT
                                        !.pc = "error", !.userId = userId,
                                        !.error = "You are offline"]
                /\ UNCHANGED <<requests, nextRid>>
           ELSE /\ nextRid <= MaxRequests
                /\ requests' = Send(NewRequest("analytics", "list",
                                        Url("user-analytics", userId, Null),
                                        localStorage.authToken))
                /\ nextRid' = nextRid + 1
                /\ analyticsPage' = [NoAnalyticsPage EXCEPT
                                        !.pc = "loading", !.userId = userId,
                                        !.awaiting = nextRid]
    /\ UNCHANGED <<cards, events, lock, clock, viewer, localStorage, dash,
                 creator>>

\* The response of loadUserAnalytics arrives: renderAnalytics or showError.
AnalyticsReceive ==
    /\ analyticsPage.pc = "loading"
    /\ analyticsPage.awaiting \in DOMAIN requests
    /\ requests[analyticsPage.awaiting].stage = "done"
    /\ LET r == requests[analyticsPage.awaiting]
           outcome == makeRequestOutcome(r.status, r.body.detail)
       IN  /\ requests' = Without(requests, analyticsPage.awaiting)
           /\ IF outcome = "ok"
              THEN /\ analyticsPage' = [analyticsPage EXCEPT
                                           !.pc = "ready", !.data = r.body.data,
                                           !.rendered = renderAnalytics(r.body.data),
                                           !.awaiting = 0]
                   /\ UNCHANGED localStorage
              ELSE IF r.status = 401
              THEN /\ localStorage' = NoSession
                   /\ analyticsPage' = [NoAnalyticsPage EXCEPT !.pc = "redirected"]
              ELSE /\ analyticsPage' = [analyticsPage EXCEPT
                                           !.pc = "error", !.error = outcome,
                                           !.awaiting = 0]
                   /\ UNCHANGED localStorage
    /\ UNCHANGED <<cards, events, lock, clock, nextRid, viewer, dash, creator>>

\* analytics.viewCardDetails(cardId), from the button of a rendered card or
\* from any caller of the global object: up to the fetch of loadCardAnalytics.
ViewCardDetails(cardId, online) ==
    /\ analyticsPage.pc \in {"ready", "error"}
    /\ analyticsPage.detailsRid = 0
    /\ LET pre == loadCardAnalyticsPrecheck(cardId, online)
       IN  IF pre # "fetch"
           THEN /\ analyticsPage' = [analyticsPage EXCEPT !.alert = pre,
                                                         !.detailsStatus = 0]
                /\ UNCHANGED <<requests, nextRid>>
           ELSE /\ nextRid <= MaxRequests
                /\ requests' = Send(NewRequest("analytics", "details",
                                        Url("analytics", cardId, Null),
                                        localStorage.authToken))
                /\ nextRid' = nextRid + 1
                /\ analyticsPage' = [analyticsPage EXCEPT !.detailsRid = nextRid,
                                                         !.detailsStatus = 0,
                                                         !.alert = Null]
    /\ UNCHANGED <<cards, events, lock, clock, viewer, localStorage, dash,
                 creator>>

\* The response of loadCardAnalytics arrives: showCardDetailsModal or alert.
DetailsReceive ==
    /\ analyticsPage.detailsRid \in DOMAIN requests
    /\ requests[analyticsPage.detailsRid].stage = "done"
    /\ LET r == requests[analyticsPage.detailsRid]
           outcome == makeRequestOutcome(r.status, r.body.detail)
       IN  /\ requests' = Without(requests, analyticsPage.detailsRid)
           /\ IF outcome = "ok"
              THEN /\ analyticsPage' = [analyticsPage EXCEPT
                                           !.modal = r.body.data, !.detailsRid = 0,
                                           !.detailsStatus = r.status]
                   /\ UNCHANGED localStorage
              ELSE IF r.status = 401
              THEN /\ localStorage' = NoSession
                   /\ analyticsPage' = [NoAnalyticsPage EXCEPT !.pc = "redirected"]
              ELSE /\ analyticsPage' = [analyticsPage EXCEPT
                                           !.alert = outcome, !.detailsRid = 0,
                                           !.detailsStatus = r.status]
                   /\ UNCHANGED localStorage
    /\ UNCHANGED <<cards, events, lock, clock, nextRid, viewer, dash, creator>>

\* The logout button of the analytics page; its listener is there once the
\* load of the page has ended, well or not.
AnalyticsLogout ==
    /\ analyticsPage.pc \in {"ready", "error"}
    /\ localStorage' = NoSession
    /\ analyticsPage' = [NoAnalyticsPage EXCEPT !.pc = "loggedOut"]
    /\ UNCHANGED <<cards, events, lock, clock, requests, nextRid, viewer, dash,
                   creator>>

(***************************************************************************)
(* The card-creation page: CardCreator and its DOMContentLoaded handler.   *)
(***************************************************************************)
\* The bounds of Utils.validateMessage and the size limit of createCard.
MinMessageLength == 10
MaxMessageLength == 1000
MaxVoiceSize == 10 * 1024 * 1024

\* toLowerCase, for the letters of the model.
LowerOf(c) ==
    CASE c = "S" -> "s"
      [] c = "O" -> "o"
      [] c = "J" -> "j"
      [] OTHER -> c

\* The pattern pat, in lower case, occurs in str whatever the case.
ContainsIgnoringCase(str, pat) ==
    \E i \in 1..(Len(str) - Len(pat) + 1) :
        \A k \in 1..Len(pat) : LowerOf(str[i + k - 1]) = pat[k]

\* \w, for the characters of the model.
WordChars == {"x", "s", "c", "r", "i", "p", "t", "o", "n", "j", "a", "v",
              "S", "O", "J", "D", "e", "m", "_", "1"}

\* /on\w+=/i.test(str)
HasOnHandler(str) ==
    \E i \in 1..(Len(str) - 3) :
        /\ LowerOf(str[i]) = "o"
        /\ LowerOf(str[i + 1]) = "n"
        /\ \E j \in (i + 3)..Len(str) :
                /\ str[j] = "="
                /\ \A k \in (i + 2)..(j - 1) : str[k] \in WordChars

\* The suspiciousPatterns of validateMessage: /<script/i, /javascript:/i,
\* /on\w+=/i.
Suspicious(str) ==
    \/ ContainsIgnoringCase(str, <<"<", "s", "c", "r", "i", "p", "t">>)
    \/ ContainsIgnoringCase(str, <<"j", "a", "v", "a", "s", "c", "r", "i", "p", "t", ":">>)
    \/ HasOnHandler(str)

\* Utils.validateMessage
validateMessage(message) ==
    LET trimmedMessage == Trim(message)
        errors ==
            IF Falsy(message) \/ trimmedMessage = <<>>
            THEN <<"Message is required">>
            ELSE (IF Len(trimmedMessage) < MinMessageLength
                  THEN <<"Message must be at least 10 characters long">> ELSE <<>>)
                 \o (IF Len(trimmedMessage) > MaxMessageLength
                     THEN <<"Message must be less than 1000 characters">> ELSE <<>>)
                 \o (IF Suspicious(trimmedMessage)
                     THEN <<"Message contains invalid content">> ELSE <<>>)
    IN  [isValid |-> errors = <<>>, errors |-> errors]

\* No voice has been recorded: recordedBlob = null, as a record like a Blob.
NoBlob == [isNull |-> TRUE, size |-> 0]

\* A recorded Blob of a size in bytes.
Blob(size) == [isNull |-> FALSE, size |-> size]

\* CardCreator.createCard up to the upload: the error it throws, or "send".
\* A slip: the size of the recording is not looked at.
createCardPrecheckNoSizeLimit(message, voiceBlob, online, token) ==
    IF ~validateMessage(message).isValid THEN validateMessage(message).errors[1]
    ELSE IF voiceBlob.isNull THEN "Voice recording is required"
    ELSE IF ~online
    THEN "You are offline. Please check your internet connection and try again."
    ELSE IF token = Null THEN "Authentication required. Please log in again."
    ELSE "send"

createCardPrecheck(message, voiceBlob, online, token) ==
    IF ~validateMessage(message).isValid THEN validateMessage(message).errors[1]
    ELSE IF voiceBlob.isNull THEN "Voice recording is required"
    ELSE IF voiceBlob.size > MaxVoiceSize
    THEN "Voice recording is too large. Please record a shorter message."
    ELSE IF ~online
    THEN "You are offline. Please check your internet connection and try again."
    ELSE IF token = Null THEN "Authentication required. Please log in again."
    ELSE "send"

\* The error texts that include 'Authentication' or 'Session expired'.
MentionsAuthentication(text) ==
    text \in {"Authentication required. Please log in again.",
              "Session expired. Please log in again.",
              "Authentication required",
              "Authentication failed for the voice service"}

\* The error texts that include 'voice' or 'recording'.
MentionsVoice(text) ==
    text \in {"Voice recording is required",
              "Voice recording is too large. Please record a shorter message.",
              "Authentication failed for the voice service",
              "Failed to generate voice"}

\* The catch block of createCard: the error is taken for an authentication
\* error, for which the session is cleared and the page redirected.
createCardTakesForAuthError(text) ==
    MentionsAuthentication(text) /\ ~MentionsVoice(text)

\* The error Utils.makeFileUploadRequest rejects with for a response that is
\* not 2xx, or "ok".
makeFileUploadOutcome(status, detail) ==
    IF status >= 200 /\ status < 300 THEN "ok"
    ELSE IF detail # Null THEN detail ELSE "HTTP error"

\* No card-creation page is open.  message, voiceBlob, online and token are
\* the inputs of the last call of createCard, sent lists the requests it has
\* sent, voiceStatus is the status of the answer to its upload; lastKind and
\* lastStatus are the last response that a call of createCard has got;
\* result is how the last call of createCard completed: Null while none has,
\* "card" for the object { success: true, card, voice }, "thrown" for an
\* error thrown to the caller, "undefined" for the bare return of the catch
\* block.
NoCreator ==
    [pc |-> "closed", message |-> <<>>, voiceBlob |-> NoBlob, online |-> TRUE,
     token |-> Null, sent |-> <<>>, voiceRid |-> 0, createRid |-> 0,
     voiceStatus |-> 0, lastKind |-> Null, lastStatus |-> 0, error |-> Null,
     card |-> <<>>, result |-> Null]

\* The page is opened: the DOMContentLoaded handler.
CreatorPageLoad ==
    /\ creator.pc \in {"closed", "redirected", "form", "failed", "success"}
    /\ creator' = IF localStorage.authToken = Null
                  THEN [NoCreator EXCEPT !.pc = "redirected"]
                  ELSE [NoCreator EXCEPT !.pc = "form"]
    /\ UNCHANGED <<cards, events, lock, clock, requests, nextRid, viewer,
                   localStorage, analyticsPage, dash>>

\* cardCreator.createCard(message, voiceBlob), from the submit handler of the
\* form or from any caller of the global object: up to the upload of the
\* voice sample.
CreateCard(message, voiceBlob, online) ==
    /\ creator.pc \in {"form", "failed", "success"}
    /\ LET token == localStorage.authToken
           pre == createCardPrecheck(message, voiceBlob, online, token)
           call == [creator EXCEPT !.message = message, !.voiceBlob = voiceBlob,
                                   !.online = online, !.token = token,
                                   !.sent = <<>>, !.voiceStatus = 0,
                                   !.error = Null, !.card = <<>>,
                                   !.result = Null]
       IN  IF pre = "send"
           THEN /\ nextRid <= MaxRequests
                /\ requests' = Send(NewRequest("creator", "voice",
                                        Url("voice-generate", Null, Null), token))
                /\ nextRid' = nextRid + 1
                /\ creator' = [call EXCEPT !.pc = "voice", !.sent = <<"voice">>,
                                           !.voiceRid = nextRid]
                /\ UNCHANGED localStorage
           ELSE IF createCardTakesForAuthError(pre)
           THEN /\ localStorage' = NoSession
                /\ creator' = [call EXCEPT !.pc = "redirected", !.error = pre,
                                           !.result = "undefined"]
                /\ UNCHANGED <<requests, nextRid>>
           ELSE /\ creator' = [call EXCEPT !.pc = "failed", !.error = pre,
                                           !.result = "thrown"]
                /\ UNCHANGED <<requests, nextRid, localStorage>>
    /\ UNCHANGED <<cards, events, lock, clock, viewer, analyticsPage, dash>>

\* The load event of the upload: makeFileUploadRequest resolves or rejects,
\* and createCard goes on to the fetch of POST /cards/create or to its catch
\* block.
VoiceReceive ==
    /\ creator.pc = "voice"
    /\ creator.voiceRid \in DOMAIN requests
    /\ requests[creator.voiceRid].stage = "done"
    /\ LET r == requests[creator.voiceRid]
           rest == Without(requests, creator.voiceRid)
           outcome == makeFileUploadOutcome(r.status, r.body.detail)
           got == [creator EXCEPT !.lastKind = "voice", !.lastStatus = r.status,
                                  !.voiceStatus = r.status, !.voiceRid = 0]
       IN  IF outcome = "ok"
           THEN /\ nextRid <= MaxRequests
                /\ requests' = (nextRid :>
                        [NewRequest("creator", "create", Url("create", Null, Null),
                                    localStorage.authToken)
                            EXCEPT !.payload = creator.message]) @@ rest
                /\ nextRid' = nextRid + 1
                /\ creator' = [got EXCEPT !.pc = "creating",
                                          !.sent = <<"voice", "create">>,
                                          !.createRid = nextRid]
                /\ UNCHANGED localStorage
           ELSE IF createCardTakesForAuthError(outcome)
           THEN /\ localStorage' = NoSession
                /\ creator' = [got EXCEPT !.pc = "redirected", !.error = outcome,
                                          !.result = "undefined"]
                /\ requests' = rest
                /\ UNCHANGED nextRid
           ELSE /\ creator' = [got EXCEPT !.pc = "failed", !.error = outcome,
                                          !.result = "thrown"]
                /\ requests' = rest
                /\ UNCHANGED <<nextRid, localStorage>>
    /\ UNCHANGED <<cards, events, lock, clock, viewer, analyticsPage, dash>>

\* The error or the timeout event of the upload; the request may still reach
\* the backend.
VoiceFails ==
    /\ creator.pc = "voice"
    /\ creator' = [creator EXCEPT
                      !.pc = "failed", !.voiceRid = 0, !.result = "thrown",
                      !.error = "Network error. Please check your connection and try again."]
    /\ requests' = IF creator.voiceRid \in DOMAIN requests
                      /\ requests[creator.voiceRid].stage = "done"
                   THEN Without(requests, creator.voiceRid) ELSE requests
    /\ UNCHANGED <<cards, events, lock, clock, nextRid, viewer, localStorage,
                   analyticsPage, dash>>

\* The response of POST /cards/create arrives: the rest of makeRequest and
\* of createCard.
CreateReceive ==
    /\ creator.pc = "creating"
    /\ creator.createRid \in DOMAIN requests
    /\ requests[creator.createRid].stage = "done"
    /\ LET r == requests[creator.createRid]
           outcome == makeRequestOutcome(r.status, r.body.detail)
           got == [creator EXCEPT !.lastKind = "create", !.lastStatus = r.status,
                                  !.createRid = 0]
       IN  /\ requests' = Without(requests, creator.createRid)
           /\ IF outcome = "ok"
              THEN /\ creator' = [got EXCEPT !.pc = "success", !.card = r.body.data,
                                             !.result = "card"]
                   /\ UNCHANGED localStorage
              ELSE IF r.status = 401 \/ createCardTakesForAuthError(outcome)
              THEN /\ localStorage' = NoSession
                   /\ creator' = [got EXCEPT !.pc = "redirected", !.error = outcome,
                                             !.result = "undefined"]
              ELSE /\ creator' = [got EXCEPT !.pc = "failed", !.error = outcome,
                                             !.result = "thrown"]
                   /\ UNCHANGED localStorage
    /\ UNCHANGED <<cards, events, lock, clock, nextRid, viewer, analyticsPage, dash>>

\* The logout button of the card-creation page.
CreatorLogout ==
    /\ creator.pc \in {"form", "failed", "success"}
    /\ localStorage' = [localStorage EXCEPT !.authToken = Null]
    /\ creator' = [NoCreator EXCEPT !.pc = "loggedOut"]
    /\ UNCHANGED <<cards, events, lock, clock, requests, nextRid, viewer,
                   analyticsPage, dash>>

(***************************************************************************)
(* The dashboard page: DashboardService.                                   *)
(***************************************************************************)
\* No dashboard page is open.  listedAt is the time of the store at which
\* the listing in userCards was served.
NoModal == [kind |-> "none", cardId |-> <<>>]

NoDash ==
    [pc |-> "closed", currentUser |-> NoSession, userCards |-> <<>>,
     rendered |-> <<>>, awaiting |-> {}, listedAt |-> 0, error |-> Null,
     modal |-> NoModal, notice |-> Null]

\* DashboardService.renderCards: the data-card-id of the card items, in the
\* order of the document.
\* A slip: the items are put in the reverse order.
renderCardsReversed(userCards) ==
    [i \in 1..Len(userCards) |-> userCards[Len(userCards) + 1 - i].id]

renderCards(userCards) ==
    [i \in 1..Len(userCards) |-> userCards[i].id]

\* The page is opened: new DashboardService(), init() up to the fetch of
\* authService.verifyToken.
DashPageLoad ==
    /\ dash.pc \in {"closed", "redirected", "ready"}
    /\ IF localStorage.authToken = Null
       THEN /\ dash' = [NoDash EXCEPT !.pc = "redirected"]
            /\ UNCHANGED <<requests, nextRid>>
       ELSE /\ nextRid <= MaxDashRequests
            /\ requests' = Send(NewRequest("dashboard", "verify",
                                    Url("verify", Null, Null),
                                    localStorage.authToken))
            /\ nextRid' = nextRid + 1
            /\ dash' = [NoDash EXCEPT !.pc = "verifying", !.awaiting = {nextRid}]
    /\ UNCHANGED <<cards, events, lock, clock, viewer, localStorage, analyticsPage,
                 creator>>

\* The response of verifyToken arrives: init() up to the fetch of
\* loadUserCards.
DashVerified(rid) ==
    /\ dash.pc = "verifying"
    /\ rid \in dash.awaiting
    /\ rid \in DOMAIN requests
    /\ requests[rid].stage = "done"
    /\ IF ~ResponseOk(requests[rid].status)
       THEN /\ localStorage' = NoSession
            /\ dash' = [NoDash EXCEPT !.pc = "redirected"]
            /\ requests' = Without(requests, rid)
            /\ UNCHANGED nextRid
       ELSE /\ nextRid <= MaxDashRequests
            /\ requests' = (nextRid :>
                    NewRequest("dashboard", "cards", Url("my-cards", Null, Null),
                               localStorage.authToken)) @@ Without(requests, rid)
            /\ nextRid' = nextRid + 1
            /\ dash' = [dash EXCEPT !.pc = "loading", !.currentUser = localStorage,
                                    !.awaiting = {nextRid}]
            /\ UNCHANGED localStorage
    /\ UNCHANGED <<cards, events, lock, clock, viewer, analyticsPage,
                 creator>>

\* A response of loadUserCards arrives: renderCards or showError, and the
\* rest of init() after the first one.
DashCardsReceive(rid) ==
    /\ dash.pc \in {"loading", "ready"}
    /\ rid \in dash.awaiting
    /\ rid \in DOMAIN requests
    /\ requests[rid].stage = "done"
    /\ LET r == requests[rid]
           outcome == makeRequestOutcome(r.status, r.body.detail)
       IN  /\ requests' = Without(requests, rid)
           /\ IF outcome = "ok"
              THEN /\ dash' = [dash EXCEPT
                                  !.pc = "ready", !.userCards = r.body.data,
                                  !.rendered = renderCards(r.body.data),
                                  !.listedAt = r.served_at,
                                  !.awaiting = @ \ {rid}, !.error = Null]
                   /\ UNCHANGED localStorage
              ELSE IF r.status = 401
              THEN /\ localStorage' = NoSession
                   /\ dash' = [NoDash EXCEPT !.pc = "redirected"]
              ELSE /\ dash' = [dash EXCEPT
                                  !.pc = "ready", !.awaiting = @ \ {rid},
                                  !.error = "Failed to load your cards. Please try again."]
                   /\ UNCHANGED localStorage
    /\ UNCHANGED <<cards, events, lock, clock, nextRid, viewer, analyticsPage,
                 creator>>

\* The refresh button: loadUserCards up to its fetch.
DashRefresh ==
    /\ dash.pc = "ready"
    /\ nextRid <= MaxDashRequests
    /\ requests' = Send(NewRequest("dashboard", "cards", Url("my-cards", Null, Null),
                                   localStorage.authToken))
    /\ nextRid' = nextRid + 1
    /\ dash' = [dash EXCEPT !.awaiting = @ \cup {nextRid}]
    /\ UNCHANGED <<cards, events, lock, clock, viewer, localStorage, analyticsPage,
                 creator>>

\* this.userCards.find(c => c.id === cardId) finds a card.
HasCard(userCards, cardId) == \E i \in 1..Len(userCards) : userCards[i].id = cardId

\* The notices of the two stubs (showInfo).
EditComingSoon == "Card editing feature is coming soon"
DeleteComingSoon == "Card deletion feature is coming soon"

\* DashboardService.editCard and deleteCard: the card is looked up and the
\* modal is put on the page.
DashOpenModal(kind, cardId) ==
    /\ dash.pc = "ready"
    /\ dash.modal = NoModal
    /\ dash' = IF HasCard(dash.userCards, cardId)
               THEN [dash EXCEPT !.modal = [kind |-> kind, cardId |-> cardId]]
               ELSE [dash EXCEPT !.notice = "Card not found"]
    /\ UNCHANGED <<cards, events, lock, clock, requests, nextRid, viewer,
                   localStorage, analyticsPage, creator>>

\* this.userCards after the submit handler of the edit form has run for a
\* message that is not blank.
\* A slip: the message of the card is replaced on the page.
editCardSubmitUpdatesList(userCards, cardId, newMessage) ==
    [i \in 1..Len(userCards) |->
        IF userCards[i].id = cardId
        THEN [userCards[i] EXCEPT !.message = newMessage] ELSE userCards[i]]

editCardSubmit(userCards, cardId, newMessage) == userCards

\* The edit form is submitted with a text in its message field (the field
\* is required: the browser submits no empty field).
DashEditSubmit(raw) ==
    /\ dash.pc = "ready"
    /\ dash.modal.kind = "edit"
    /\ LET newMessage == Trim(raw)
       IN  dash' = IF Falsy(newMessage)
                   THEN [dash EXCEPT !.notice = "Please enter a message"]
                   ELSE [dash EXCEPT
                            !.userCards = editCardSubmit(dash.userCards,
                                                dash.modal.cardId, newMessage),
                            !.notice = EditComingSoon,
                            !.modal = NoModal]
    /\ UNCHANGED <<cards, events, lock, clock, requests, nextRid, viewer,
                   localStorage, analyticsPage, creator>>

\* DashboardService.confirmDeleteCard, from the Delete Card button of the
\* modal.
DashConfirmDelete ==
    /\ dash.pc = "ready"
    /\ dash.modal.kind = "delete"
    /\ dash' = [dash EXCEPT !.notice = DeleteComingSoon, !.modal = NoModal]
    /\ UNCHANGED <<cards, events, lock, clock, requests, nextRid, viewer,
                   localStorage, analyticsPage, creator>>

\* The logout button of the dashboard: DashboardService.logout asks for a
\* confirmation, AuthService.logout goes up to the fetch of POST /auth/logout
\* or, without a token, straight to its finally block.
DashLogout(confirmed) ==
    /\ dash.pc = "ready"
    /\ IF ~confirmed
       THEN UNCHANGED <<requests, nextRid, localStorage, dash>>
       ELSE IF localStorage.authToken = Null
       THEN /\ localStorage' = NoSession
            /\ dash' = [NoDash EXCEPT !.pc = "loggedOut"]
            /\ UNCHANGED <<requests, nextRid>>
       ELSE /\ nextRid <= MaxDashRequests
            /\ requests' = Send(NewRequest("dashboard", "logout",
                                    Url("logout", Null, Null),
                                    localStorage.authToken))
            /\ nextRid' = nextRid + 1
            /\ dash' = [dash EXCEPT !.pc = "loggingOut", !.awaiting = {nextRid}]
            /\ UNCHANGED localStorage
    /\ UNCHANGED <<cards, events, lock, clock, viewer, analyticsPage, creator>>

\* The fetch of AuthService.logout has ended, with a response of any status
\* or with a failure: the finally block.
DashLogoutDone(failed) ==
    /\ dash.pc = "loggingOut"
    /\ failed \/ \E rid \in dash.awaiting :
                    rid \in DOMAIN requests /\ requests[rid].stage = "done"
    /\ localStorage' = NoSession
    /\ dash' = [NoDash EXCEPT !.pc = "loggedOut"]
    /\ requests' = [rid \in {x \in DOMAIN requests :
                                ~(x \in dash.awaiting /\ requests[x].stage = "done")}
                        |-> requests[rid]]
    /\ UNCHANGED <<cards, events, lock, clock, nextRid, viewer, analyticsPage, creator>>

\* A direct client of the API sends a request with a bearer token.
ApiGet(endpoint, id, token) ==
    /\ nextRid <= MaxRequests
    /\ requests' = Send(NewRequest("api", "fetch", Url(endpoint, id, Null), token))
    /\ nextRid' = nextRid + 1
    /\ UNCHANGED <<cards, events, lock, clock, viewer, authVars>>

\* and reads the response.
ApiReceive(rid) ==
    /\ requests[rid].from = "api"
    /\ requests[rid].stage = "done"
    /\ requests' = Without(requests, rid)
    /\ UNCHANGED <<cards, events, lock, clock, nextRid, viewer, authVars>>

\* A direct client of the API asks for a card with a viewer name.
ApiView(id, name) ==
    /\ nextRid <= MaxRequests
    /\ requests' = Send(NewRequest("api", "fetch",
                            Url("card", id, encodeURIComponent(name)), Null))
    /\ nextRid' = nextRid + 1
    /\ UNCHANGED <<cards, events, lock, clock, viewer, authVars>>

\* Nobody is logged in and no page of the owner's side is open.
AuthIdle ==
    /\ localStorage = NoSession
    /\ analyticsPage = NoAnalyticsPage
    /\ dash = NoDash
    /\ creator = NoCreator

\* The tabs that hold a view-card page.
Viewers == {"tab1", "tab2"}

\* The tabs in which pages call the AuthService; they share localStorage.
AuthTabs == {"tabA", "tabB"}

\* No call of the AuthService has been made in a tab.  op is the method
\* called, stage is "idle", "awaiting" (its fetch is in flight) or "done",
\* user the user of a login or register and token the authToken the call
\* read (both while the fetch is in flight), sent whether it sent a request,
\* answer what its fetch gave, result what the call returned or "thrown".
NoCall ==
    [op |-> "none", stage |-> "idle", user |-> Null, token |-> Null,
     sent |-> FALSE, answer |-> Null, result |-> Null]

\* The voice recorder of a card-creation page that was just constructed:
\* CardCreator's constructor, before initializeAudio; the form is empty and
\* the submit button was disabled by the first validateForm.
NoRecorder ==
    [mediaRecorder |-> Null,        \* Null, or the recorder's state: "inactive"/"recording"
     streamActive |-> FALSE,        \* the tracks of mediaRecorder.stream are live
     isRecording |-> FALSE,
     recordingStartTime |-> Null,
     recordedBlob |-> Null,         \* Null or "blob"
     timeouts |-> {},               \* the times at which a pending setTimeout is due
     onstop |-> FALSE,              \* a stop event of the recorder waits for dispatch
     now |-> 0,                     \* Date.now(), in ticks
     lastStop |-> <<>>,             \* the last recording that was stopped, if any
     message |-> <<>>,              \* the text of the message field
     submitDisabled |-> TRUE,       \* submitBtn.disabled
     inFlight |-> FALSE,            \* the submit handler awaits createCard
     error |-> Null]

\* The personalization check is not running; the name fields are empty.
PersIdle ==
    /\ persMessage = <<>>
    /\ persName = <<>>
    /\ persResult = <<>>
    /\ persPc = "start"
    /\ nameField = [v \in Viewers |-> <<>>]
    /\ recorder = NoRecorder
    /\ auth = [t \in AuthTabs |-> NoCall]

(***************************************************************************)
(* The card access protocol: two tabs of the view-card page and the        *)
(* backend.                                                                *)
(***************************************************************************)
\* Ids of the links opened: two cards of the store and an id of no card.
LinkIds == {<<"a">>, <<"b">>, <<"c">>}

\* Texts typed into the name field.
TypedNames == {<<"A">>, <<" ", "B", "&">>, <<"<", ">">>}

Init ==
    /\ cards = InitialCards
    /\ events = <<>>
    /\ lock = {}
    /\ clock = 0
    /\ requests = <<>>
    /\ nextRid = 1
    /\ viewer \in [Viewers -> {NewPage(id) : id \in LinkIds}]
    /\ AuthIdle
    /\ PersIdle

Next ==
    \/ \E v \in Viewers, id \in LinkIds : PageLoad(v, id) /\ UNCHANGED persVars
    \/ \E v \in Viewers, raw \in TypedNames, online \in BOOLEAN :
            Submit(v, raw, online) /\ UNCHANGED persVars
    \/ \E v \in Viewers : Receive(v) /\ UNCHANGED persVars
    \/ \E v \in Viewers : FetchFails(v) /\ UNCHANGED persVars
    \/ \E v \in Viewers : AudioLoaded(v) /\ UNCHANGED persVars
    \/ \E endpoint \in {"card", "audio"}, id \in LinkIds :
            OtherGet(endpoint, id) /\ UNCHANGED persVars
    \/ \E rid \in DOMAIN requests : ServerRespond(rid) /\ UNCHANGED persVars
    \/ \E rid \in DOMAIN requests : ServerEnter(rid) /\ UNCHANGED persVars
    \/ \E rid \in DOMAIN requests : ServerCommit(rid) /\ UNCHANGED persVars
    \/ \E rid \in DOMAIN requests : ServerStorageFailure(rid) /\ UNCHANGED persVars

Spec == Init /\ [][Next]_vars

(***************************************************************************)
(* Properties of the card access protocol.                                 *)
(***************************************************************************)
\* The View Events recorded for request rid.
EventsOf(rid) == {i \in 1..Len(events) : events[i].rid = rid}

\* C1: every successful render request that carries a valid viewer name
\* appends exactly one View Event for its card (with that name), also when
\* the same name comes again; a request without a viewer name appends none.
C1_OneEventPerNamedRender ==
    /\ \A v \in Viewers :
          viewer[v].pc = "shown" =>
              /\ Cardinality(EventsOf(viewer[v].awaiting)) = 1
              /\ \A i \in EventsOf(viewer[v].awaiting) :
                    /\ events[i].card_id = viewer[v].cardId
                    /\ events[i].viewer_name = viewer[v].recipientName
    /\ \A rid \in 1..MaxRequests : Cardinality(EventsOf(rid)) <= 1
    /\ \A i \in 1..Len(events) : events[i].viewer_name # Null
    /\ \A rid \in DOMAIN requests :
          requests[rid].url.recipient_name = Null => EventsOf(rid) = {}

\* The same name has viewed the same card twice: two events.
C1_Witness ==
    /\ Len(events) = 2
    /\ events[1].card_id = events[2].card_id
    /\ events[1].viewer_name = events[2].viewer_name
    /\ \E v \in Viewers : viewer[v].pc = "shown" /\ viewer[v].awaiting = 2

\* C2: for every card, view_count equals the number of its View Events, in
\* every state, also after a request has failed or timed out mid-way.
C2_ViewCountEqualsEvents ==
    \A c \in DOMAIN cards : cards[c].view_count = EventCount(c)

\* A view is recorded and another request of the card has failed.
C2_Witness ==
    \E c \in DOMAIN cards :
        /\ cards[c].view_count = 1
        /\ \E rid \in DOMAIN requests :
              /\ requests[rid].url.card_id = c
              /\ RecordsView(requests[rid])
              /\ requests[rid].stage = "done"
              /\ requests[rid].status = 500

\* C3: two concurrent view requests of one card with different names both
\* succeed, leave two separate View Events and a view_count of the initial
\* value plus 2.
C3_ConcurrentViewsBothCounted ==
    /\ \A rid \in DOMAIN requests :
          (requests[rid].stage = "done" /\ RecordsView(requests[rid]))
              => requests[rid].status \in {200, 500}
    /\ \A v1, v2 \in Viewers :
          ( /\ v1 # v2
            /\ viewer[v1].pc = "shown" /\ viewer[v2].pc = "shown"
            /\ viewer[v1].cardId = viewer[v2].cardId
            /\ viewer[v1].recipientName # viewer[v2].recipientName )
          => /\ \E i, j \in 1..Len(events) :
                  /\ i # j
                  /\ events[i].rid = viewer[v1].awaiting
                  /\ events[i].viewer_name = viewer[v1].recipientName
                  /\ events[j].rid = viewer[v2].awaiting
                  /\ events[j].viewer_name = viewer[v2].recipientName
             /\ cards[viewer[v1].cardId].view_count
                    = InitialCards[viewer[v1].cardId].view_count
                        + EventCount(viewer[v1].cardId)
             /\ cards[viewer[v1].cardId].view_count
                    >= InitialCards[viewer[v1].cardId].view_count + 2

\* Both tabs show the card; the request sent second was recorded first, so
\* the two were in flight together.
C3_Witness ==
    /\ \E v1, v2 \in Viewers :
          /\ v1 # v2
          /\ viewer[v1].pc = "shown" /\ viewer[v2].pc = "shown"
          /\ viewer[v1].cardId = viewer[v2].cardId
          /\ viewer[v1].recipientName # viewer[v2].recipientName
          /\ cards[viewer[v1].cardId].view_count = 2
    /\ Len(events) = 2
    /\ events[1].rid > events[2].rid

\* C4: audio resolution never creates a View Event: a visit that loads the
\* card with a name and then its audio has added exactly one event.
C4_AudioCreatesNoEvent ==
    /\ \A rid \in DOMAIN requests :
          (requests[rid].kind = "audio" \/ requests[rid].url.endpoint # "card")
              => EventsOf(rid) = {}
    /\ \A v \in Viewers :
          (viewer[v].pc = "shown" /\ viewer[v].audioRid # 0)
              => /\ EventsOf(viewer[v].audioRid) = {}
                 /\ Cardinality(EventsOf(viewer[v].awaiting)
                                    \cup EventsOf(viewer[v].audioRid)) = 1

\* A card is shown and its audio has been fetched.
C4_Witness ==
    \E v \in Viewers :
        /\ viewer[v].pc = "shown"
        /\ viewer[v].audioRid # 0
        /\ viewer[v].audioLabel = "Personal Voice Message"
        /\ Len(events) = 1

\* C14: for a card whose ai_voice_path is null the page still shows the
\* personalized message and no error; the audio step ends with the label
\* that the audio is not yet available, sends no audio request and adds no
\* View Event (the only event of the visit is that of the render request);
\* an audio request of any client for such a card is answered "not
\* available" and adds no View Event.
C14_NullVoicePathDegradesGracefully ==
    /\ \A v \in Viewers :
          (viewer[v].pc = "shown" /\ viewer[v].cardData.ai_voice_path = Null)
              => /\ viewer[v].personalizedMessage # Null
                 /\ viewer[v].errorMessage = Null
                 /\ viewer[v].audioLabel = "Audio message will be available soon"
                 /\ viewer[v].audioRid = 0
                 /\ Cardinality(EventsOf(viewer[v].awaiting)) = 1
                 /\ \A i \in 1..Len(events) :
                        events[i].rid \in DOMAIN requests
                            => requests[events[i].rid].url.endpoint = "card"
    /\ \A rid \in DOMAIN requests :
          (requests[rid].url.endpoint = "audio"
              /\ requests[rid].url.card_id \in DOMAIN cards
              /\ cards[requests[rid].url.card_id].ai_voice_path = Null)
              => /\ requests[rid].kind # "audio"
                 /\ EventsOf(rid) = {}
                 /\ requests[rid].stage = "done"
                        => /\ requests[rid].status = 404
                           /\ requests[rid].body.detail = "Audio not available"

\* The card without a voice path is shown to a named viewer, and the view is
\* recorded.
C14_Witness ==
    \E v \in Viewers :
        /\ viewer[v].pc = "shown"
        /\ viewer[v].cardData.ai_voice_path = Null
        /\ viewer[v].cardId = <<"b">>
        /\ viewer[v].audioLabel = "Audio message will be available soon"
        /\ Len(events) = 1

\* C18: the View Event log is append-only: in every step every event of the
\* log stays at its place with its card_id, viewer_name and viewed_at, and
\* the log gets no shorter; a step can only add events at the end.
C18_EventLogAppendOnly ==
    [][/\ Len(events') >= Len(events)
       /\ \A i \in 1..Len(events) :
            /\ events'[i].card_id = events[i].card_id
            /\ events'[i].viewer_name = events[i].viewer_name
            /\ events'[i].viewed_at = events[i].viewed_at]_vars

\* Two views have been recorded, one after the other.
C18_Witness ==
    /\ Len(events) = 2
    /\ events[1].viewed_at < events[2].viewed_at

\* C8: a render request for an id of no card fails with NotFound, appends no
\* View Event and changes no view_count, with or without a viewer name; the
\* page reports card not found and keeps no card data.
C8_MissingCardNotFound ==
    /\ \A rid \in DOMAIN requests :
          (requests[rid].url.endpoint = "card"
                /\ requests[rid].url.card_id \notin DOMAIN cards)
              => /\ requests[rid].stage # "inCS"
                 /\ requests[rid].stage = "done" => requests[rid].status \in {404, 500}
                 /\ EventsOf(rid) = {}
    /\ \A i \in 1..Len(events) : events[i].card_id \in DOMAIN cards
    /\ \A v \in Viewers :
          /\ viewer[v].cardId \notin DOMAIN cards
                => /\ viewer[v].cardData = NoCardData
                   /\ viewer[v].pc # "shown"
                   /\ viewer[v].status \in {0, 404, 500}
          /\ viewer[v].status = 404
                => /\ viewer[v].pc = "error"
                   /\ viewer[v].errorMessage = "Wedding card not found"
                   /\ viewer[v].cardData = NoCardData

\* The page of an id of no card has its answer.
C8_Witness ==
    \E v \in Viewers :
        /\ viewer[v].cardId \notin DOMAIN cards
        /\ viewer[v].status = 404
        /\ viewer[v].errorMessage = "Wedding card not found"
        /\ events = <<>>

(***************************************************************************)
(* Personalization of any message with any name: the name form's submit    *)
(* handler as far as the text is concerned (trim, validate, personalize).  *)
(***************************************************************************)
PersNameChars == {"A", " ", "$", "&", "'", GraveAccent, "<", ">"}
PersFrags == {Placeholder, <<"x">>, SubSeq(Placeholder, 1, 5)}

PersMessages == ConcatsUpTo(PersFrags, MaxFrags)
PersNames == SeqsUpTo(PersNameChars, MaxNameLen)

PersInit ==
    /\ cards = InitialCards
    /\ events = <<>>
    /\ lock = {}
    /\ clock = 0
    /\ requests = <<>>
    /\ nextRid = 1
    /\ viewer = [v \in Viewers |-> NewPage(Null)]
    /\ AuthIdle
    /\ persMessage \in PersMessages
    /\ persName \in PersNames
    /\ persResult = <<>>
    /\ persPc = "start"
    /\ nameField = [v \in Viewers |-> <<>>]
    /\ recorder = NoRecorder
    /\ auth = [t \in AuthTabs |-> NoCall]

PersReject ==
    /\ persPc = "start"
    /\ ~validateRecipientName(Trim(persName)).isValid
    /\ persPc' = "rejected"
    /\ UNCHANGED <<persMessage, persName, persResult, nameField, recorder, auth>>
    /\ UNCHANGED <<cards, events, lock, clock, requests, nextRid, viewer, authVars>>

PersPersonalize ==
    /\ persPc = "start"
    /\ validateRecipientName(Trim(persName)).isValid
    /\ persResult' = personalizeMessage(persMessage, Trim(persName))
    /\ persPc' = "done"
    /\ UNCHANGED <<persMessage, persName, nameField, recorder, auth>>
    /\ UNCHANGED <<cards, events, lock, clock, requests, nextRid, viewer, authVars>>

PersNext == PersReject \/ PersPersonalize

SpecPers == PersInit /\ [][PersNext]_vars

\* C11: a load that fails with a storage failure (5xx) is surfaced to the
\* user only after the request has been retried exactly once, so after two
\* fetches; a load that fails with NotFound (404) or InvalidInput (400) is
\* surfaced after the one fetch, without a retry.
C11_StorageFailureRetriedOnce ==
    \A v \in Viewers :
        viewer[v].pc = "error" /\ viewer[v].attempts > 0 =>
            /\ viewer[v].status >= 500 => viewer[v].attempts = 2
            /\ viewer[v].status \in {400, 404} => viewer[v].attempts = 1

(***************************************************************************)
(* Properties of personalization.                                          *)
(***************************************************************************)
\* C5: personalizing a message M with a valid name N yields M with each
\* occurrence of {name} replaced by exactly the text N, all else unchanged.
C5_PersonalizeIsLiteralSubstitution ==
    persPc = "done" =>
        persResult = LiteralSubstitution(persMessage, Trim(persName), 1)

\* C6: a message without the {name} placeholder is returned unchanged,
\* whatever the name.
C6_NoPlaceholderNoChange ==
    (persPc = "done" /\ ~Contains(persMessage, Placeholder)) =>
        persResult = persMessage

C6_Witness ==
    /\ persPc = "done"
    /\ ~Contains(persMessage, Placeholder)
    /\ Contains(persMessage, SubSeq(Placeholder, 1, 5))
    /\ Contains(persName, <<"$", "&">>)
    /\ persResult = persMessage


(***************************************************************************)
(* Card ids as input: one tab of the view-card page opened with any id,    *)
(* the analytics page of a logged-in user, a direct client of the API,     *)
(* and the backend.                                                        *)
(***************************************************************************)
\* The id parameter of a link when it is there: empty, or a text.  A link
\* without the parameter has the id Null.
UrlIds == {<<>>, <<"a">>, <<"/">>, <<"a", "/">>, <<"/", "a">>}

\* The ids a direct client of the API tries: those the pages would not send.
MalformedIds == {id \in UrlIds : ~cardIdFormatOk(id)}

\* The pages of the two tabs when tab1 has opened a link with the id.
OpenedWith(id) == [v \in Viewers |-> IF v = "tab1" THEN NewPage(id) ELSE NewPage(Null)]

InputInit ==
    /\ cards = InitialCards
    /\ events = <<>>
    /\ lock = {}
    /\ clock = 0
    /\ requests = <<>>
    /\ nextRid = 1
    /\ \/ viewer = OpenedWith(Null)
       \/ \E id \in UrlIds : viewer = OpenedWith(id)
    /\ localStorage = SessionOf("u1")
    /\ analyticsPage = NoAnalyticsPage
    /\ dash = NoDash
    /\ creator = NoCreator
    /\ PersIdle

InputNext ==
    \/ PageLoad("tab1", Null) /\ UNCHANGED persVars
    \/ \E id \in UrlIds : PageLoad("tab1", id) /\ UNCHANGED persVars
    \/ \E online \in BOOLEAN : Submit("tab1", <<"A">>, online) /\ UNCHANGED persVars
    \/ Receive("tab1") /\ UNCHANGED persVars
    \/ FetchFails("tab1") /\ UNCHANGED persVars
    \/ AudioLoaded("tab1") /\ UNCHANGED persVars
    \/ \E online \in BOOLEAN : AnalyticsPageLoad(online) /\ UNCHANGED persVars
    \/ AnalyticsReceive /\ UNCHANGED persVars
    \/ \E online \in BOOLEAN : ViewCardDetails(Null, online) /\ UNCHANGED persVars
    \/ \E id \in UrlIds, online \in BOOLEAN :
            ViewCardDetails(id, online) /\ UNCHANGED persVars
    \/ DetailsReceive /\ UNCHANGED persVars
    \/ \E endpoint \in {"card", "analytics"}, id \in MalformedIds :
            ApiGet(endpoint, id, "t1") /\ UNCHANGED persVars
    \/ \E rid \in DOMAIN requests : ApiReceive(rid) /\ UNCHANGED persVars
    \/ \E rid \in DOMAIN requests : ServerRespond(rid) /\ UNCHANGED persVars
    \/ \E rid \in DOMAIN requests : ServerEnter(rid) /\ UNCHANGED persVars
    \/ \E rid \in DOMAIN requests : ServerCommit(rid) /\ UNCHANGED persVars
    \/ \E rid \in DOMAIN requests : ServerStorageFailure(rid) /\ UNCHANGED persVars

SpecInput == InputInit /\ [][InputNext]_vars

\* The text matches ^[a-zA-Z0-9_-]+$.
MatchesIdPattern(id) ==
    /\ id # Null
    /\ Len(id) >= 1
    /\ \A i \in 1..Len(id) : id[i] \in IdClass

\* The endpoints with a card id in their path.
CardIdEndpoints == {"card", "audio", "analytics"}

\* C7: a card id that is missing or does not match ^[a-zA-Z0-9_-]+$ is
\* rejected before any network request or store access.  No page ever has a
\* request in flight for such an id; loadCard and loadCardAnalytics throw for
\* it without a fetch, whether online or not; the view-card page opened with
\* such an id holds no card data and is in no state but the form or an error;
\* and the backend answers a request with such an id with 400 without
\* entering the critical section of the store.
C7_InvalidIdRejectedBeforeRequest ==
    /\ \A rid \in DOMAIN requests :
            /\ requests[rid].from \in Viewers \cup {"analytics"}
            /\ requests[rid].url.endpoint \in CardIdEndpoints
            => MatchesIdPattern(requests[rid].url.card_id)
    /\ \A online \in BOOLEAN :
            /\ loadCardPrecheck(Null, <<"A">>, online) = "No card ID provided"
            /\ loadCardAnalyticsPrecheck(Null, online) # "fetch"
            /\ \A id \in UrlIds :
                    ~MatchesIdPattern(id) =>
                        /\ loadCardPrecheck(id, <<"A">>, online) \in
                                {"No card ID provided", "Invalid card ID format"}
                        /\ loadCardAnalyticsPrecheck(id, online) \in
                                {"Invalid card ID", "You are offline"}
    /\ \A v \in Viewers :
            ~MatchesIdPattern(viewer[v].cardId) =>
                /\ viewer[v].pc \in {"form", "error"}
                /\ viewer[v].cardData = NoCardData
                /\ viewer[v].awaiting = 0
                /\ viewer[v].pc = "error" =>
                        viewer[v].errorMessage \in
                            {"Invalid card link", "Invalid card ID format"}
    /\ \A rid \in DOMAIN requests :
            /\ requests[rid].url.endpoint \in CardIdEndpoints
            /\ ~MatchesIdPattern(requests[rid].url.card_id)
            => /\ requests[rid].stage \in {"sent", "done"}
               /\ requests[rid].stage = "done" => requests[rid].status = 400

\* C7 witness: the view-card page opened with a malformed id has thrown
\* 'Invalid card ID format' at the submit, viewCardDetails has alerted
\* 'Invalid card ID' for a malformed id, and no request is in flight.
C7_Witness ==
    /\ ~Falsy(viewer["tab1"].cardId)
    /\ ~MatchesIdPattern(viewer["tab1"].cardId)
    /\ viewer["tab1"].pc = "error"
    /\ viewer["tab1"].errorMessage = "Invalid card ID format"
    /\ analyticsPage.pc = "ready"
    /\ analyticsPage.alert = "Invalid card ID"
    /\ analyticsPage.detailsRid = 0
    /\ requests = <<>>

(***************************************************************************)
(* The owner's side: the dashboard and the analytics page of a logged-in   *)
(* user, direct clients of the API with any token, cards being created and *)
(* viewed meanwhile, and the backend.                                      *)
(***************************************************************************)
\* The users, and the bearer tokens direct clients try: the one of the user
\* who is not at the pages, and one of nobody.
Users == {"u1", "u2"}
Tokens == {"t2", "tX"}

DashInit ==
    /\ cards = InitialCards
    /\ events = <<>>
    /\ lock = {}
    /\ clock = 0
    /\ requests = <<>>
    /\ nextRid = 1
    /\ viewer = [v \in Viewers |-> NewPage(Null)]
    /\ localStorage = SessionOf("u1")
    /\ analyticsPage = NoAnalyticsPage
    /\ dash = NoDash
    /\ creator = NoCreator
    /\ PersIdle

DashNext ==
    \/ DashPageLoad /\ UNCHANGED persVars
    \/ \E rid \in DOMAIN requests : DashVerified(rid) /\ UNCHANGED persVars
    \/ \E rid \in DOMAIN requests : DashCardsReceive(rid) /\ UNCHANGED persVars
    \/ DashRefresh /\ UNCHANGED persVars
    \/ AnalyticsPageLoad(TRUE) /\ UNCHANGED persVars
    \/ AnalyticsReceive /\ UNCHANGED persVars
    \/ \E id \in DOMAIN InitialCards : ViewCardDetails(id, TRUE) /\ UNCHANGED persVars
    \/ DetailsReceive /\ UNCHANGED persVars
    \/ \E id \in DOMAIN InitialCards, token \in Tokens :
            ApiGet("analytics", id, token) /\ UNCHANGED persVars
    \/ \E id \in DOMAIN InitialCards : ApiView(id, <<"A">>) /\ UNCHANGED persVars
    \/ \E rid \in DOMAIN requests : ApiReceive(rid) /\ UNCHANGED persVars
    \/ \E owner \in Users : CardCreated(owner) /\ UNCHANGED persVars
    \/ \E rid \in DOMAIN requests : ServerRespond(rid) /\ UNCHANGED persVars
    \/ \E rid \in DOMAIN requests : ServerEnter(rid) /\ UNCHANGED persVars
    \/ \E rid \in DOMAIN requests : ServerCommit(rid) /\ UNCHANGED persVars

SpecDash == DashInit /\ [][DashNext]_vars

\* The answered card-analytics requests.
AnsweredCardAnalytics ==
    {rid \in DOMAIN requests : /\ requests[rid].url.endpoint = "analytics"
                               /\ requests[rid].stage = "done"}

NewestFirstOrder(listing) ==
    \A i \in 1..Len(listing), j \in 1..Len(listing) :
        i < j => listing[i].created_at >= listing[j].created_at

\* The listing holds exactly the cards the user owned at the time t of the
\* store, each once.
ExactlyOwnedAt(listing, user, t) ==
    /\ {listing[i].id : i \in 1..Len(listing)} =
            {c \in CardsOwnedBy(user) : cards[c].created_at <= t}
    /\ \A i \in 1..Len(listing), j \in 1..Len(listing) :
            listing[i].id = listing[j].id => i = j

\* The answered my-cards requests.
AnsweredListings ==
    {rid \in DOMAIN requests : /\ requests[rid].url.endpoint = "my-cards"
                               /\ requests[rid].stage = "done"
                               /\ requests[rid].status = 200}

\* C10: a my-cards listing holds exactly the cards owned by the user of the
\* token when it was served, newest created first; a listing served with no
\* write of the store since the one the dashboard holds is the same
\* listing; and the dashboard shows the cards of the listing it holds in
\* the order received.
C10_ListingOwnedNewestFirstStable ==
    /\ \A rid \in AnsweredListings :
            LET r == requests[rid]
            IN  /\ ExactlyOwnedAt(r.body.data, TokenUser(r.token), r.served_at)
                /\ NewestFirstOrder(r.body.data)
    /\ \A rid \in AnsweredListings :
            LET r == requests[rid]
            IN  /\ dash.pc = "ready"
                /\ dash.error = Null
                /\ r.token = dash.currentUser.authToken
                /\ r.served_at = dash.listedAt
                => r.body.data = dash.userCards
    /\ dash.pc = "ready" /\ dash.error = Null =>
            /\ ExactlyOwnedAt(dash.userCards, dash.currentUser.userId, dash.listedAt)
            /\ NewestFirstOrder(dash.userCards)
            /\ Len(dash.rendered) = Len(dash.userCards)
            /\ \A i \in 1..Len(dash.rendered) : dash.rendered[i] = dash.userCards[i].id

\* C10 witness: the dashboard shows two cards of its user, the newer one
\* first, and a second listing served at the same time of the store has
\* arrived for the refresh.
C10_Witness ==
    /\ dash.pc = "ready"
    /\ Len(dash.rendered) >= 2
    /\ cards[dash.rendered[1]].created_at > cards[dash.rendered[2]].created_at
    /\ \E rid \in AnsweredListings :
            /\ rid \in dash.awaiting
            /\ requests[rid].served_at = dash.listedAt

(***************************************************************************)
(* Card creation: the card-creation page of a user whose token is valid or *)
(* has expired, the analytics page in another tab, where the user may log  *)
(* out meanwhile, and the backend.                                         *)
(***************************************************************************)
\* A text of n characters x.
RECURSIVE Xs(_)
Xs(n) ==
    IF n = 0 THEN <<>>
    ELSE IF n % 2 = 0 THEN Xs(n \div 2) \o Xs(n \div 2)
    ELSE Append(Xs(n - 1), "x")

\* A message that passes validateMessage.
ValidMessage == <<"D", "e", "a", "r", " ">> \o Placeholder \o <<"x", "x">>

\* The messages tried: none, too short, the shortest and the longest valid
\* ones, too long, too short once trimmed, and with suspicious content.
MessagesTried ==
    {<<>>, Xs(MinMessageLength - 1), Xs(MinMessageLength), Xs(MaxMessageLength),
     Xs(MaxMessageLength + 1), <<" ", " ">> \o Xs(MinMessageLength - 1) \o <<" ">>,
     <<"<", "S", "c", "r", "i", "p", "t">> \o Xs(MinMessageLength),
     <<"O", "n", "x", "=">> \o Xs(MinMessageLength),
     ValidMessage}

\* The recordings tried: none, a small one, the largest allowed, too large.
BlobsTried == {NoBlob, Blob(1), Blob(MaxVoiceSize), Blob(MaxVoiceSize + 1)}

\* The calls of createCard tried, as <<message, voiceBlob, online>>: every
\* message with a good recording, every recording with a good message, and
\* a good message and recording while offline.
CallsTried ==
    {<<m, Blob(1), TRUE>> : m \in MessagesTried}
        \cup {<<ValidMessage, b, TRUE>> : b \in BlobsTried}
        \cup {<<ValidMessage, Blob(1), FALSE>>}

\* localStorage of a user whose token has expired.
ExpiredSession == [SessionOf("u1") EXCEPT !.authToken = "tX"]

CreateInit ==
    /\ cards = InitialCards
    /\ events = <<>>
    /\ lock = {}
    /\ clock = 0
    /\ requests = <<>>
    /\ nextRid = 1
    /\ viewer = [v \in Viewers |-> NewPage(Null)]
    /\ localStorage \in {SessionOf("u1"), ExpiredSession}
    /\ analyticsPage = NoAnalyticsPage
    /\ dash = NoDash
    /\ creator = NoCreator
    /\ PersIdle

CreateNext ==
    \/ CreatorPageLoad /\ UNCHANGED persVars
    \/ \E call \in CallsTried :
            CreateCard(call[1], call[2], call[3]) /\ UNCHANGED persVars
    \/ VoiceReceive /\ UNCHANGED persVars
    \/ VoiceFails /\ UNCHANGED persVars
    \/ CreateReceive /\ UNCHANGED persVars
    \/ AnalyticsPageLoad(FALSE) /\ UNCHANGED persVars
    \/ AnalyticsLogout /\ UNCHANGED persVars
    \/ \E rid \in DOMAIN requests, status \in {200, 401, 503},
          detail \in UnauthorizedDetails \cup {"Failed to generate voice"} :
            ServerVoice(rid, status, detail) /\ UNCHANGED persVars
    \/ \E rid \in DOMAIN requests : ServerCreate(rid) /\ UNCHANGED persVars

SpecCreate == CreateInit /\ [][CreateNext]_vars

\* C12: after a request of the client that carries the token, sent by
\* makeRequest or by makeFileUploadRequest, has got a 401, the keys
\* authToken, userId and username are all absent from localStorage.
C12_UnauthorizedClearsSession ==
    creator.lastStatus = 401 => localStorage = NoSession

\* The inputs of the last call of createCard pass all its checks.
CreateInputsOk ==
    /\ validateMessage(creator.message).isValid
    /\ ~creator.voiceBlob.isNull
    /\ creator.voiceBlob.size <= MaxVoiceSize
    /\ creator.online
    /\ creator.token # Null

LogoutInit ==
    /\ cards = InitialCards
    /\ events = <<>>
    /\ lock = {}
    /\ clock = 0
    /\ requests = <<>>
    /\ nextRid = 1
    /\ viewer = [v \in Viewers |-> NewPage(Null)]
    /\ localStorage = SessionOf("u1")
    /\ analyticsPage = NoAnalyticsPage
    /\ dash = NoDash
    /\ creator = NoCreator
    /\ PersIdle

LogoutNext ==
    \/ DashPageLoad /\ UNCHANGED persVars
    \/ \E rid \in DOMAIN requests : DashVerified(rid) /\ UNCHANGED persVars
    \/ \E rid \in DOMAIN requests : DashCardsReceive(rid) /\ UNCHANGED persVars
    \/ \E confirmed \in BOOLEAN : DashLogout(confirmed) /\ UNCHANGED persVars
    \/ \E failed \in BOOLEAN : DashLogoutDone(failed) /\ UNCHANGED persVars
    \/ \E online \in BOOLEAN : AnalyticsPageLoad(online) /\ UNCHANGED persVars
    \/ AnalyticsReceive /\ UNCHANGED persVars
    \/ AnalyticsLogout /\ UNCHANGED persVars
    \/ CreatorPageLoad /\ UNCHANGED persVars
    \/ CreatorLogout /\ UNCHANGED persVars
    \/ \E rid \in DOMAIN requests : ServerRespond(rid) /\ UNCHANGED persVars

SpecLogout == LogoutInit /\ [][LogoutNext]_vars

\* C13: after a logout from a page that offers it (the dashboard, through
\* the auth service; the card-creation page; the analytics page), whether the
\* logout call to the backend succeeded or not, the keys authToken, userId
\* and username are all absent from localStorage (the page has then been
\* sent to index.html).
C13_LogoutClearsSession ==
    \/ dash.pc = "loggedOut"
    \/ analyticsPage.pc = "loggedOut"
    \/ creator.pc = "loggedOut"
    => localStorage = NoSession

(***************************************************************************)
(* The name form: two tabs of the view-card page on card a, names at the   *)
(* limits of the name check, and the backend.                              *)
(***************************************************************************)
\* Texts typed into the name field: nothing, white space only, one letter,
\* 100 and 101 characters, 100 characters between white space, a tag, a tag
\* inside a name, and a "<" that opens no tag.
NamesTried ==
    {<<>>, <<" ">>, <<"A">>, Xs(100), Xs(101), <<" ">> \o Xs(100) \o <<" ">>,
     <<"<", "b", ">">>, <<"A", "<", ">", "B">>, <<"<", "B">>}

\* The submissions tried: each text online, and one of the texts offline.
SubmitsTried == {<<raw, TRUE>> : raw \in NamesTried} \cup {<<Xs(100), FALSE>>}

\* The name form is submitted with a text in its field.
NameSubmit(v, raw, online) ==
    /\ Submit(v, raw, online)
    /\ nameField' = [nameField EXCEPT ![v] = raw]
    /\ UNCHANGED <<persMessage, persName, persResult, persPc, recorder, auth>>

\* The page is opened again: the name field is empty.
NamePageLoad(v, id) ==
    /\ PageLoad(v, id)
    /\ nameField' = [nameField EXCEPT ![v] = <<>>]
    /\ UNCHANGED <<persMessage, persName, persResult, persPc, recorder, auth>>

NameInit ==
    /\ cards = InitialCards
    /\ events = <<>>
    /\ lock = {}
    /\ clock = 0
    /\ requests = <<>>
    /\ nextRid = 1
    /\ viewer = [v \in Viewers |-> NewPage(<<"a">>)]
    /\ AuthIdle
    /\ PersIdle

NameNext ==
    \/ \E v \in Viewers : NamePageLoad(v, <<"a">>)
    \/ \E v \in Viewers, try \in SubmitsTried : NameSubmit(v, try[1], try[2])
    \/ \E v \in Viewers : Receive(v) /\ UNCHANGED persVars
    \/ \E v \in Viewers : FetchFails(v) /\ UNCHANGED persVars
    \/ \E v \in Viewers : AudioLoaded(v) /\ UNCHANGED persVars
    \/ \E rid \in DOMAIN requests : ServerRespond(rid) /\ UNCHANGED persVars
    \/ \E rid \in DOMAIN requests : ServerEnter(rid) /\ UNCHANGED persVars
    \/ \E rid \in DOMAIN requests : ServerCommit(rid) /\ UNCHANGED persVars

SpecName == NameInit /\ [][NameNext]_vars

\* A tag: a "<" and, at some later place, a ">".
HasTag(s) ==
    \E k \in 1..Len(s) : s[k] = ">" /\ \E i \in 1..(k - 1) : s[i] = "<"

\* A name is acceptable: trimmed, it has 1 to 100 characters and no tag.
NameAccepted(raw) ==
    /\ Len(Trim(raw)) >= 1
    /\ Len(Trim(raw)) <= 100
    /\ ~HasTag(Trim(raw))

\* The texts tried that are acceptable, and the recipient_name each text
\* makes when it is trimmed and percent-encoded.
AcceptedNames == {raw \in NamesTried : NameAccepted(raw)}

QueryOf == [raw \in NamesTried |-> encodeURIComponent(Trim(raw))]

\* The name check and the checks of loadCard before its fetch agree with
\* NameAccepted on every text tried (loadCard takes the empty text for no
\* name; the form never hands it one).
NameCheckAgrees ==
    \A raw \in NamesTried :
        /\ validateRecipientName(raw).isValid <=> NameAccepted(raw)
        /\ raw # <<>> =>
              (loadCardPrecheck(<<"a">>, raw, TRUE) = "fetch" <=> NameAccepted(raw))

EarlierViews ==
    {<<>>, << <<"A">> >>, << <<"A">>, <<"A">> >>, << <<"A">>, <<"a">> >>,
     << <<"A">>, <<"B">>, <<"A">> >>}

\* The View Event log of views of card a under these names.
LogOf(names) ==
    [i \in 1..Len(names) |->
        [card_id |-> <<"a">>, viewer_name |-> names[i], viewed_at |-> i, rid |-> 0]]

AnalyticsInit ==
    /\ \E names \in EarlierViews :
            /\ events = LogOf(names)
            /\ cards = [InitialCards EXCEPT ![<<"a">>].view_count = Len(names)]
            /\ clock = Len(names)
    /\ lock = {}
    /\ requests = <<>>
    /\ nextRid = 1
    /\ viewer = [v \in Viewers |-> NewPage(Null)]
    /\ localStorage = SessionOf("u1")
    /\ analyticsPage = NoAnalyticsPage
    /\ dash = NoDash
    /\ creator = NoCreator
    /\ PersIdle

AnalyticsNext ==
    \/ AnalyticsPageLoad(TRUE) /\ UNCHANGED persVars
    \/ AnalyticsReceive /\ UNCHANGED persVars
    \/ \E id \in DOMAIN InitialCards : ViewCardDetails(id, TRUE) /\ UNCHANGED persVars
    \/ DetailsReceive /\ UNCHANGED persVars
    \/ \E name \in {<<"A">>, <<"a">>} : ApiView(<<"a">>, name) /\ UNCHANGED persVars
    \/ \E rid \in DOMAIN requests : ApiReceive(rid) /\ UNCHANGED persVars
    \/ CardCreated("u1") /\ UNCHANGED persVars
    \/ \E rid \in DOMAIN requests : ServerRespond(rid) /\ UNCHANGED persVars
    \/ \E rid \in DOMAIN requests : ServerEnter(rid) /\ UNCHANGED persVars
    \/ \E rid \in DOMAIN requests : ServerCommit(rid) /\ UNCHANGED persVars

SpecAnalytics == AnalyticsInit /\ [][AnalyticsNext]_vars

\* The viewer names of a sequence of View Events, as a set: two names are
\* the same only if they are the same text, capitals included.
NamesIn(evs) == {evs[i].viewer_name : i \in 1..Len(evs)}

\* A rollup agrees with a log of the card's events.
RollupAgreesWith(r, evs) ==
    /\ r.total_views = Len(evs)
    /\ r.unique_viewers = Cardinality(NamesIn(evs))
    /\ {r.viewer_names[i] : i \in 1..Len(r.viewer_names)} = NamesIn(evs)
    /\ \A i \in 1..Len(r.viewer_names), k \in 1..Len(r.viewer_names) :
            r.viewer_names[i] = r.viewer_names[k] => i = k
    /\ r.unique_viewers = Len(r.viewer_names)
    /\ Len(r.viewer_names) <= r.total_views

\* A rollup that was delivered agrees with the log of its card as it was
\* when the rollup was made: the events of the card up to some event.
DeliveredRollupAgrees(r) ==
    /\ r.card_id \in DOMAIN cards
    /\ \E n \in 0..Len(EventsOfCard(r.card_id)) :
            RollupAgreesWith(r, SubSeq(EventsOfCard(r.card_id), 1, n))

\* The requests for analytics that have been answered with rollups.
AnsweredRollups ==
    {rid \in DOMAIN requests :
        /\ requests[rid].url.endpoint \in {"analytics", "user-analytics"}
        /\ requests[rid].stage = "done"
        /\ requests[rid].status = 200}

\* C16: for every card the per-card rollup has total_views equal to the
\* number of View Events of the card, unique_viewers equal to the number of
\* distinct viewer names (capitals count), and viewer_names holds each
\* distinct name exactly once, so unique_viewers = length of viewer_names
\* <= total_views; the analytics page shows these numbers and names.
C16_RollupCountsMatchLog ==
    /\ \A c \in DOMAIN cards : RollupAgreesWith(Rollup(c), EventsOfCard(c))
    /\ \A rid \in AnsweredRollups :
            \A i \in 1..Len(requests[rid].body.data) :
                DeliveredRollupAgrees(requests[rid].body.data[i])
    /\ analyticsPage.pc = "ready" =>
            /\ Len(analyticsPage.rendered.cards) = Len(analyticsPage.data)
            /\ \A i \in 1..Len(analyticsPage.data) :
                LET r == analyticsPage.data[i]
                    shown == analyticsPage.rendered.cards[i]
                IN  /\ DeliveredRollupAgrees(r)
                    /\ shown.totalViews = r.total_views
                    /\ shown.uniqueViewers = r.unique_viewers
                    /\ shown.viewersCount = shown.uniqueViewers
                    /\ shown.viewerItems = r.viewer_names
    /\ \A i \in 1..Len(analyticsPage.modal) :
            DeliveredRollupAgrees(analyticsPage.modal[i])

\* The page shows card a after three views under two names that differ in
\* their capitals only, one of the names twice.
C16_Witness ==
    /\ analyticsPage.pc = "ready"
    /\ \E i \in 1..Len(analyticsPage.data) :
            /\ analyticsPage.data[i].card_id = <<"a">>
            /\ analyticsPage.data[i].total_views = 3
            /\ analyticsPage.data[i].unique_viewers = 2
            /\ analyticsPage.data[i].viewer_names = << <<"A">>, <<"a">> >>
            /\ analyticsPage.rendered.cards[i].uniqueViewers = 2

\* A rollup of no views.
ZeroRollup(r) ==
    /\ r.total_views = 0
    /\ r.unique_viewers = 0
    /\ Len(r.viewer_names) = 0
    /\ Len(r.recent_views) = 0

\* C17: a request for the analytics of a card with no View Events, by its
\* owner, succeeds with a rollup of total_views 0, unique_viewers 0 and empty
\* viewer_names and recent_views (alone or in the list of the owner's cards);
\* the analytics page shows such a rollup, in its list and in its details
\* modal, and reports no failure.
C17_ZeroEventsZeroRollup ==
    /\ \A rid \in DOMAIN requests :
            LET r == requests[rid]
            IN  (/\ r.stage = "done"
                 /\ r.url.endpoint = "analytics"
                 /\ r.url.card_id \in DOMAIN cards
                 /\ TokenUser(r.token) = cards[r.url.card_id].owner_id
                 /\ EventCount(r.url.card_id) = 0)
                    => /\ r.status = 200
                       /\ Len(r.body.data) = 1
                       /\ r.body.data[1].card_id = r.url.card_id
                       /\ ZeroRollup(r.body.data[1])
    /\ \A rid \in DOMAIN requests :
            LET r == requests[rid]
            IN  (/\ r.stage = "done"
                 /\ r.url.endpoint = "user-analytics"
                 /\ TokenUser(r.token) # Null)
                    => /\ r.status = 200
                       /\ \A i \in 1..Len(r.body.data) :
                            EventCount(r.body.data[i].card_id) = 0
                                => ZeroRollup(r.body.data[i])
    /\ analyticsPage.pc = "ready" =>
            /\ analyticsPage.error = Null
            /\ analyticsPage.rendered.noData = (Len(analyticsPage.data) = 0)
            /\ \A i \in 1..Len(analyticsPage.data) :
                ZeroRollup(analyticsPage.data[i]) =>
                    LET shown == analyticsPage.rendered.cards[i]
                    IN  /\ shown.card_id = analyticsPage.data[i].card_id
                        /\ shown.totalViews = 0
                        /\ shown.uniqueViewers = 0
                        /\ shown.viewersCount = 0
                        /\ shown.noViewsYet
                        /\ ~shown.recentViewsShown
    /\ (analyticsPage.detailsStatus = 200 /\ analyticsPage.detailsRid = 0)
            => /\ Len(analyticsPage.modal) = 1
               /\ analyticsPage.alert = Null

\* The page shows the owner's card with no views, in its list and in its
\* details modal.
C17_Witness ==
    /\ analyticsPage.pc = "ready"
    /\ Len(events) = 0
    /\ Len(analyticsPage.data) >= 1
    /\ ZeroRollup(analyticsPage.data[1])
    /\ analyticsPage.rendered.cards[1].noViewsYet
    /\ Len(analyticsPage.modal) = 1
    /\ ZeroRollup(analyticsPage.modal[1])

(***************************************************************************)
(* The edit and delete buttons of the dashboard: the dashboard of the      *)
(* owner of card a and the backend.                                        *)
(***************************************************************************)
\* Texts in the message field of the edit form: blank, and a message.
EditTexts == {<<" ">>, <<"H", "o">>}

StubNext ==
    \/ DashPageLoad /\ UNCHANGED persVars
    \/ \E rid \in DOMAIN requests : DashVerified(rid) /\ UNCHANGED persVars
    \/ \E rid \in DOMAIN requests : DashCardsReceive(rid) /\ UNCHANGED persVars
    \/ DashRefresh /\ UNCHANGED persVars
    \/ \E kind \in {"edit", "delete"}, id \in DOMAIN InitialCards :
            DashOpenModal(kind, id) /\ UNCHANGED persVars
    \/ \E raw \in EditTexts : DashEditSubmit(raw) /\ UNCHANGED persVars
    \/ DashConfirmDelete /\ UNCHANGED persVars
    \/ CardCreated("u1") /\ UNCHANGED persVars
    \/ \E rid \in DOMAIN requests : ServerRespond(rid) /\ UNCHANGED persVars

SpecStub == LogoutInit /\ [][StubNext]_vars

\* A step of the submit handler of the edit form or of confirmDeleteCard:
\* a modal is open on the dashboard, the page stays, and the modal or the
\* notice changes.
StubStep ==
    /\ dash.pc = "ready" /\ dash'.pc = "ready"
    /\ dash.modal # NoModal
    /\ dash'.modal # dash.modal \/ dash'.notice # dash.notice

\* Such a step sends no request and changes neither the card list of the
\* dashboard nor a stored card.
StubFrame ==
    /\ requests' = requests
    /\ nextRid' = nextRid
    /\ dash'.userCards = dash.userCards
    /\ dash'.rendered = dash.rendered
    /\ cards' = cards

\* Such a step shows the coming-soon notice of its modal and closes it.
StubNotice ==
    /\ dash'.modal = NoModal
    /\ dash'.notice = IF dash.modal.kind = "edit" THEN EditComingSoon
                      ELSE DeleteComingSoon

\* C19 as stated: submitting the edit-card form and confirming a deletion
\* send no request, leave userCards and every stored card unchanged, show
\* the coming-soon notice and close the modal.
C19_StubsAlwaysShowComingSoon == [][StubStep => StubFrame /\ StubNotice]_vars

\* C19, amended: submitting the edit-card form and confirming a deletion
\* send no request and leave userCards and every stored card unchanged; they
\* show the coming-soon notice and close the modal, except that an edit form
\* submitted with a blank message shows "Please enter a message" and keeps
\* its modal open.
C19_StubsChangeNothing ==
    [][StubStep =>
        /\ StubFrame
        /\ \/ StubNotice
           \/ /\ dash.modal.kind = "edit"
              /\ dash'.modal = dash.modal
              /\ dash'.notice = "Please enter a message"]_vars

\* A deletion has been confirmed for a card of the dashboard's list: the
\* notice is shown, the modal is closed and the card is still listed.
C19_Witness ==
    /\ dash.pc = "ready"
    /\ dash.notice = DeleteComingSoon
    /\ dash.modal = NoModal
    /\ HasCard(dash.userCards, <<"a">>)
    /\ <<"a">> \in DOMAIN cards
    /\ dash.awaiting = {}

(***************************************************************************)
(* The voice recorder of the card-creation page (card-creator.js):         *)
(* startRecording, stopRecording, the 30 second timeout that startRecording *)
(* sets and never clears, the recorder's stop event, validateForm and the   *)
(* submit handler.  Time runs in ticks of ten seconds.                     *)
(***************************************************************************)
\* The last tick of the clock.
MaxTime == 5

\* setTimeout(..., 30000) of startRecording, in ticks.
AutoStopAfter == 3

\* The texts typed into the message field.
RecorderMessages == {<<>>, Xs(MinMessageLength - 1), ValidMessage}

\* CardCreator.validateForm: the value it gives submitBtn.disabled.
validateForm(r) ==
    ~(validateMessage(r.message).isValid /\ r.recordedBlob # Null)

\* CardCreator.stopRecording, called by the record button (auto = FALSE) or
\* by a timeout (auto = TRUE).  MediaRecorder.stop() on a recorder that is
\* not recording throws in some browsers and does nothing in others.
stopRecording(r, auto, stopThrows) ==
    IF r.mediaRecorder = Null \/ ~r.isRecording THEN r
    ELSE IF r.mediaRecorder = "inactive" /\ stopThrows THEN r
    ELSE IF r.mediaRecorder = "inactive"
    THEN [r EXCEPT !.isRecording = FALSE, !.streamActive = FALSE]
    ELSE [r EXCEPT !.mediaRecorder = "inactive",
                   !.onstop = TRUE,
                   !.isRecording = FALSE,
                   !.streamActive = FALSE,
                   !.lastStop = <<[auto |-> auto,
                                   ranFor |-> r.now - r.recordingStartTime]>>]

\* CardCreator.startRecording.  micOk: getUserMedia of initializeAudio gives
\* a stream; startOk: MediaRecorder.start() accepts a stream whose tracks
\* were stopped by an earlier stopRecording (a browser may throw instead).
startRecording(r, micOk, startOk) ==
    IF r.mediaRecorder = Null /\ ~micOk
    THEN [r EXCEPT !.error = "Microphone access denied"]
    ELSE LET ready == IF r.mediaRecorder = Null
                      THEN [r EXCEPT !.mediaRecorder = "inactive", !.streamActive = TRUE]
                      ELSE r
             begun == [ready EXCEPT !.recordedBlob = Null,
                                    !.isRecording = TRUE,
                                    !.recordingStartTime = r.now]
         IN  IF ready.mediaRecorder = "recording" \/ (~ready.streamActive /\ ~startOk)
             THEN [begun EXCEPT !.error = "Failed to start recording. Please try again."]
             ELSE [begun EXCEPT !.mediaRecorder = "recording",
                                !.timeouts = @ \cup {r.now + AutoStopAfter}]

\* The click handler of the record button.
RecordClick(micOk, startOk, stopThrows) ==
    /\ recorder' = IF ~recorder.isRecording
                   THEN startRecording(recorder, micOk, startOk)
                   ELSE stopRecording(recorder, FALSE, stopThrows)
    /\ UNCHANGED <<persMessage, persName, persResult, persPc, nameField, auth>>

\* A timeout set by startRecording is due: if (this.isRecording) stopRecording().
TimeoutFires(stopThrows) ==
    /\ recorder.now \in recorder.timeouts
    /\ LET r == [recorder EXCEPT !.timeouts = @ \ {recorder.now}]
       IN  recorder' = IF r.isRecording THEN stopRecording(r, TRUE, stopThrows) ELSE r
    /\ UNCHANGED <<persMessage, persName, persResult, persPc, nameField, auth>>

\* mediaRecorder.onstop: the Blob is built and validateForm is called.
RecorderOnStop ==
    /\ recorder.onstop
    /\ LET r == [recorder EXCEPT !.onstop = FALSE, !.recordedBlob = "blob", !.error = Null]
       IN  recorder' = [r EXCEPT !.submitDisabled = validateForm(r)]
    /\ UNCHANGED <<persMessage, persName, persResult, persPc, nameField, auth>>

\* The input handler of the message field: validateForm.
MessageInput(text) ==
    /\ text # recorder.message
    /\ LET r == [recorder EXCEPT !.message = text]
       IN  recorder' = [r EXCEPT !.submitDisabled = validateForm(r)]
    /\ UNCHANGED <<persMessage, persName, persResult, persPc, nameField, auth>>

\* The submit handler up to its await: a disabled button submits nothing.
FormSubmit ==
    /\ ~recorder.submitDisabled
    /\ ~recorder.inFlight
    /\ recorder' = IF validateForm(recorder)
                   THEN [recorder EXCEPT !.submitDisabled = TRUE]
                   ELSE [recorder EXCEPT !.submitDisabled = TRUE, !.inFlight = TRUE]
    /\ UNCHANGED <<persMessage, persName, persResult, persPc, nameField, auth>>

\* The submit handler after its await: createCard gave a card (the button
\* stays as it is) or the catch block enables the button again.
FormSubmitEnds(created) ==
    /\ recorder.inFlight
    /\ recorder' = IF created
                   THEN [recorder EXCEPT !.inFlight = FALSE, !.error = "created"]
                   ELSE [recorder EXCEPT !.inFlight = FALSE, !.submitDisabled = FALSE,
                                         !.error = "Failed to create card. Please try again."]
    /\ UNCHANGED <<persMessage, persName, persResult, persPc, nameField, auth>>

\* Ten seconds pass; a timeout that is due and a stop event fire first.
RecorderTick ==
    /\ recorder.now < MaxTime
    /\ recorder.now \notin recorder.timeouts
    /\ ~recorder.onstop
    /\ recorder' = [recorder EXCEPT !.now = @ + 1]
    /\ UNCHANGED <<persMessage, persName, persResult, persPc, nameField, auth>>

RecorderFrame ==
    UNCHANGED <<cards, events, lock, clock, requests, nextRid, viewer, authVars>>

RecorderInit == LogoutInit

RecorderNext ==
    \/ (\E micOk \in BOOLEAN, startOk \in BOOLEAN, stopThrows \in BOOLEAN :
            RecordClick(micOk, startOk, stopThrows)) /\ RecorderFrame
    \/ (\E stopThrows \in BOOLEAN : TimeoutFires(stopThrows)) /\ RecorderFrame
    \/ RecorderOnStop /\ RecorderFrame
    \/ (\E text \in RecorderMessages : MessageInput(text)) /\ RecorderFrame
    \/ FormSubmit /\ RecorderFrame
    \/ (\E created \in BOOLEAN : FormSubmitEnds(created)) /\ RecorderFrame
    \/ RecorderTick /\ RecorderFrame

SpecRecord == RecorderInit /\ [][RecorderNext]_vars

\* C21: a recording is stopped automatically when, and only when, it has
\* itself been running for 30 seconds: every automatic stop ends a recording
\* that ran for exactly AutoStopAfter, and no recording runs longer.
C21_AutoStopAfterOwn30s ==
    /\ \A i \in DOMAIN recorder.lastStop :
          recorder.lastStop[i].auto => recorder.lastStop[i].ranFor = AutoStopAfter
    /\ recorder.mediaRecorder = "recording"
          => recorder.now - recorder.recordingStartTime <= AutoStopAfter

\* C26: if the submit button is enabled while no creation is in flight, the
\* message is valid and a recorded voice blob exists, also after a second
\* recording has been started.
C26_EnabledSubmitHasMessageAndBlob ==
    (~recorder.submitDisabled /\ ~recorder.inFlight)
        => (validateMessage(recorder.message).isValid /\ recorder.recordedBlob # Null)

\* C25: every call of createCard either returns a result object with
\* success = true or throws an error; it never completes with no result, so
\* the submit handler never reads the success field of a missing result.
C25_CreateCardReturnsResultOrThrows ==
    creator.result \in {Null, "card", "thrown"}

\* C22: when loading the card fails after the name form was submitted, the
\* handler shows the error and then resets the submit button to its original
\* text and enables it: the button never stays disabled with 'Loading...'.
C22_FailedLoadResetsButton ==
    \A v \in Viewers :
        (viewer[v].pc = "error" /\ ~Falsy(viewer[v].cardId))
            => (viewer[v].submitText = originalText /\ ~viewer[v].submitDisabled)

(***************************************************************************)
(* The AuthService (auth.js) called from two tabs that share localStorage, *)
(* next to a card-creation page: login, register, logout, verifyToken, the  *)
(* 401 handling of Utils.makeRequest and the creation of a card.           *)
(***************************************************************************)
\* What the fetch of a call gives: a response that is ok, a response that is
\* not ok, a response whose body response.json() cannot parse, or a
\* rejection (network error).
FetchAnswers == {"ok", "notOk", "badBody", "networkError"}

\* AuthService.login and AuthService.register after the fetch: localStorage
\* and what the call returns ("success") or that it throws ("thrown").
\* A slip: the response is stored before response.ok is looked at.
loginStoresBeforeCheck(storage, user, answer) ==
    IF answer \in {"ok", "notOk"}
    THEN [storage |-> SessionOf(user),
          result |-> IF answer = "ok" THEN "success" ELSE "thrown"]
    ELSE [storage |-> storage, result |-> "thrown"]

login(storage, user, answer) ==
    IF answer = "ok"
    THEN [storage |-> SessionOf(user), result |-> "success"]
    ELSE [storage |-> storage, result |-> "thrown"]

\* AuthService.clearAuthData.
clearAuthData(storage) ==
    [storage EXCEPT !.authToken = Null, !.userId = Null, !.username = Null]

\* AuthService.verifyToken after the fetch: localStorage and the valid field
\* of what it returns.
\* A slip: the catch block does not clear the session.
verifyTokenKeepsOnThrow(storage, answer) ==
    IF answer = "ok" THEN [storage |-> storage, result |-> "valid"]
    ELSE IF answer = "notOk" THEN [storage |-> clearAuthData(storage), result |-> "invalid"]
    ELSE [storage |-> storage, result |-> "invalid"]

verifyToken(storage, answer) ==
    IF answer = "ok" THEN [storage |-> storage, result |-> "valid"]
    ELSE [storage |-> clearAuthData(storage), result |-> "invalid"]

\* What an action of the AuthService leaves alone.
AuthFrame ==
    UNCHANGED <<cards, events, lock, clock, requests, nextRid, viewer,
                analyticsPage, dash, creator,
                persMessage, persName, persResult, persPc, nameField, recorder>>

\* The login or the registration form is submitted: the call up to its fetch.
Login(t, op, user) ==
    /\ auth[t].stage # "awaiting"
    /\ auth' = [auth EXCEPT ![t] = [NoCall EXCEPT !.op = op, !.stage = "awaiting",
                                                  !.user = user, !.sent = TRUE]]
    /\ UNCHANGED localStorage
    /\ AuthFrame

\* The fetch of login or register is settled: the rest of the call.
LoginReceive(t, answer) ==
    /\ auth[t].stage = "awaiting"
    /\ auth[t].op \in {"login", "register"}
    /\ LET done == login(localStorage, auth[t].user, answer)
       IN  /\ localStorage' = done.storage
           /\ auth' = [auth EXCEPT ![t] =
                        [NoCall EXCEPT !.op = auth[t].op, !.stage = "done",
                                       !.sent = TRUE, !.answer = answer,
                                       !.result = done.result]]
    /\ AuthFrame

\* A protected page is opened: verifyToken up to its fetch, or all of it
\* when no token is stored.
VerifyToken(t) ==
    /\ auth[t].stage # "awaiting"
    /\ LET token == localStorage.authToken
       IN  auth' = [auth EXCEPT ![t] =
                IF token = Null
                THEN [NoCall EXCEPT !.op = "verify", !.stage = "done",
                                    !.result = "invalid"]
                ELSE [NoCall EXCEPT !.op = "verify", !.stage = "awaiting",
                                    !.token = token, !.sent = TRUE]]
    /\ UNCHANGED localStorage
    /\ AuthFrame

\* The fetch of verifyToken is settled; the endpoint answers ok only for a
\* token it knows.
VerifyReceive(t, answer) ==
    /\ auth[t].stage = "awaiting"
    /\ auth[t].op = "verify"
    /\ answer \in {"ok", "badBody"} => TokenUser(auth[t].token) # Null
    /\ LET done == verifyToken(localStorage, answer)
       IN  /\ localStorage' = done.storage
           /\ auth' = [auth EXCEPT ![t] =
                        [NoCall EXCEPT !.op = "verify", !.stage = "done",
                                       !.sent = TRUE, !.answer = answer,
                                       !.result = done.result]]
    /\ AuthFrame

\* The logout button of a page of auth.js: AuthService.logout up to its
\* fetch, or all of it when no token is stored.
Logout(t) ==
    /\ auth[t].stage # "awaiting"
    /\ LET token == localStorage.authToken
       IN  IF token = Null
           THEN /\ auth' = [auth EXCEPT ![t] =
                        [NoCall EXCEPT !.op = "logout", !.stage = "done",
                                       !.result = "loggedOut"]]
                /\ localStorage' = clearAuthData(localStorage)
           ELSE /\ auth' = [auth EXCEPT ![t] =
                        [NoCall EXCEPT !.op = "logout", !.stage = "awaiting",
                                       !.sent = TRUE]]
                /\ UNCHANGED localStorage
    /\ AuthFrame

\* The fetch of logout is settled, however: the finally block.
LogoutDone(t) ==
    /\ auth[t].stage = "awaiting"
    /\ auth[t].op = "logout"
    /\ localStorage' = clearAuthData(localStorage)
    /\ auth' = [auth EXCEPT ![t].stage = "done", ![t].result = "loggedOut"]
    /\ AuthFrame

\* The calls of login and register made, as <<method, user>>.
LoginsTried == {<<"login", "u1">>, <<"register", "u2">>}

\* The one call of createCard made: a valid message and recording, online.
AuthCallsTried == {<<ValidMessage, Blob(1), TRUE>>}

AuthInit ==
    /\ cards = InitialCards
    /\ events = <<>>
    /\ lock = {}
    /\ clock = 0
    /\ requests = <<>>
    /\ nextRid = 1
    /\ viewer = [v \in Viewers |-> NewPage(Null)]
    /\ localStorage \in {NoSession, ExpiredSession}
    /\ analyticsPage = NoAnalyticsPage
    /\ dash = NoDash
    /\ creator = NoCreator
    /\ PersIdle

AuthNext ==
    \/ \E t \in AuthTabs, call \in LoginsTried : Login(t, call[1], call[2])
    \/ \E t \in AuthTabs, answer \in FetchAnswers : LoginReceive(t, answer)
    \/ \E t \in AuthTabs : VerifyToken(t)
    \/ \E t \in AuthTabs, answer \in FetchAnswers : VerifyReceive(t, answer)
    \/ \E t \in AuthTabs : Logout(t)
    \/ \E t \in AuthTabs : LogoutDone(t)
    \/ CreatorPageLoad /\ UNCHANGED persVars
    \/ CreatorLogout /\ UNCHANGED persVars
    \/ \E call \in AuthCallsTried :
            CreateCard(call[1], call[2], call[3]) /\ UNCHANGED persVars
    \/ VoiceReceive /\ UNCHANGED persVars
    \/ CreateReceive /\ UNCHANGED persVars
    \/ \E rid \in DOMAIN requests, status \in {200, 401},
          detail \in {"Authentication required", Null} :
            ServerVoice(rid, status, detail) /\ UNCHANGED persVars
    \/ \E rid \in DOMAIN requests : ServerCreate(rid) /\ UNCHANGED persVars

SpecAuth == AuthInit /\ [][AuthNext]_vars

\* C23: verifyToken returns valid:true only if an authToken was stored and
\* the verify endpoint answered OK; when the endpoint answers not-OK or the
\* request throws it removes authToken, userId and username and returns
\* valid:false; when no token is stored it returns valid:false without
\* sending a request.
C23_VerifyTokenOutcomes ==
    [][\A t \in AuthTabs :
          (auth'[t] # auth[t] /\ auth'[t].op = "verify" /\ auth'[t].stage = "done")
              => /\ auth'[t].result = "valid"
                    => (auth[t].token # Null /\ auth'[t].sent /\ auth'[t].answer = "ok")
                 /\ auth'[t].answer \in {"notOk", "badBody", "networkError"}
                    => /\ auth'[t].result = "invalid"
                       /\ localStorage'.authToken = Null
                       /\ localStorage'.userId = Null
                       /\ localStorage'.username = Null
                 /\ (auth[t].stage # "awaiting" /\ localStorage.authToken = Null)
                    => /\ auth'[t].result = "invalid"
                       /\ ~auth'[t].sent
                       /\ requests' = requests
                       /\ localStorage' = localStorage]_vars

\* A verification failed and cleared the session, and after it a
\* verification in another tab found no token and sent nothing.
C23_Witness ==
    \E t \in AuthTabs, u \in AuthTabs :
        /\ auth[t].op = "verify" /\ auth[t].answer = "notOk"
        /\ auth[t].result = "invalid"
        /\ auth[u].op = "verify" /\ auth[u].stage = "done" /\ ~auth[u].sent
        /\ auth[u].result = "invalid"
        /\ localStorage = NoSession

\* C28: a login or register call that fails (non-OK response, unparsable
\* response body or network error) throws and leaves authToken, userId and
\* username in localStorage exactly as they were: neither the step that
\* sends its request nor the step that ends it changes localStorage.
C28_FailedLoginKeepsStorage ==
    [][\A t \in AuthTabs :
          /\ (auth'[t] # auth[t] /\ auth'[t].op \in {"login", "register"}
                  /\ auth'[t].stage = "awaiting")
                => localStorage' = localStorage
          /\ (auth'[t] # auth[t] /\ auth'[t].op \in {"login", "register"}
                  /\ auth'[t].stage = "done"
                  /\ auth'[t].answer \in {"notOk", "badBody", "networkError"})
                => (auth'[t].result = "thrown" /\ localStorage' = localStorage)]_vars

\* A registration has failed on a not-OK response while the session of an
\* earlier login is stored.
C28_Witness ==
    \E t \in AuthTabs :
        /\ auth[t].op = "register" /\ auth[t].stage = "done"
        /\ auth[t].answer = "notOk" /\ auth[t].result = "thrown"
        /\ localStorage = SessionOf("u1")

\* C27: for any interleaving of a token verification with a login or
\* register in another tab, a verification that fails never removes session
\* keys written by a login or register that completed after the verification
\* read its token: when it fails while localStorage holds a token other than
\* the one it read, it leaves localStorage alone.
C27_FailedVerifyKeepsNewerSession ==
    [][\A t \in AuthTabs :
          (/\ auth[t].op = "verify" /\ auth[t].stage = "awaiting"
           /\ auth'[t].stage = "done" /\ auth'[t].result = "invalid"
           /\ localStorage.authToken \notin {Null, auth[t].token})
              => localStorage' = localStorage]_vars

\* C24: in every reachable state, after any sequence of login, register,
\* logout, token verification, 401 handling and card creation, the keys
\* authToken, userId and username are either all present or all absent.
C24_SessionKeysAllOrNone ==
    \/ localStorage.authToken # Null /\ localStorage.userId # Null
            /\ localStorage.username # Null
    \/ localStorage.authToken = Null /\ localStorage.userId = Null
            /\ localStorage.username = Null

====
